---- MODULE Spec2Model ----
(***************************************************************************)
(* The fd table of the mxio POSIX layer (system/ulib/mxio/unistd.c):       *)
(* the startup hook __libc_extensions_init, mxio_bind_to_fd,               *)
(* mxio_unbind_from_fd, __mxio_fd_to_io, close, mxio_dup and its callers,  *)
(* and mxio_handle_fd, run by concurrent threads.  One action is one       *)
(* critical section of mxio_lock, or the lock-free tail of a call.         *)
(* Further specifications follow single calls: read and write with their   *)
(* wait loop (SpecIO), open, openat, pipe2 and futimens (SpecSeq), chdir   *)
(* and getcwd with the cwd path (SpecCwd), poll and select (SpecPoll).     *)
(* SpecChdir follows chdir lock by lock, with mxio_lock and mxio_cwd_lock  *)
(* as variables, next to getcwd, umask, close, dup, open and mxio_exit.    *)
(* SpecPath follows the calls that take a path through mxio_iodir, and     *)
(* SpecDir a directory stream: opendir, readdir, rewinddir and closedir.   *)
(***************************************************************************)
EXTENDS Integers, Sequences, FiniteSets, TLC

\* ---------------------------------------------------------------- bounds
\* size of mxio_fdtab (scaled down; slots 0, 1, 2 are stdio)
MAX_MXIO_FD == 4
\* longest handle bundle passed to __libc_extensions_init
MaxHandles == 2
\* number of POSIX calls made after startup
MaxCalls == 2

Threads == {"A", "B"}
\* the owner of a mutex that is not locked
NoThread == "none"
MainThread == {"A"}

\* objects: startup makes at most MaxHandles + 3 null + root + cwd, a call
\* at most two
MaxObj == MaxHandles + 5 + 2 * MaxCalls
Objs == 1..MaxObj
NULL == 0

Fds == 0..(MAX_MXIO_FD - 1)
\* fd arguments a caller may pass: one negative, the table, one too large
FdArgs == (0 - 1)..MAX_MXIO_FD
\* fd arguments that name an fd to look up: the table, one too large
OldFds == 0..MAX_MXIO_FD

\* what the counts of a freed object may read as afterwards, besides the
\* values they had: the memory zeroed, or reused for something that holds 1
Garbage == {0, 1}
\* starting_fd arguments of fcntl(F_DUPFD): negative, inside, past the end
StartArgs == {0 - 1, 1, MAX_MXIO_FD}

\* statuses and errno values, kept symbolic
NO_ERROR == "NO_ERROR"
ERR_INVALID_ARGS == "ERR_INVALID_ARGS"
ERR_UNAVAILABLE == "ERR_UNAVAILABLE"
EBADF == "EBADF"
EINVAL == "EINVAL"
EMFILE == "EMFILE"
ERR_NOT_FOUND == "ERR_NOT_FOUND"
ERR_BAD_HANDLE == "ERR_BAD_HANDLE"
ERR_SHOULD_WAIT == "ERR_SHOULD_WAIT"
ERR_TIMED_OUT == "ERR_TIMED_OUT"
ERR_IO == "ERR_IO"
ERR_NO_MEMORY == "ERR_NO_MEMORY"
ERR_INTERNAL == "ERR_INTERNAL"
ENOMEM == "ENOMEM"
ENOENT == "ENOENT"
EAGAIN == "EAGAIN"
ETIMEDOUT == "ETIMEDOUT"
EIO == "EIO"
ERANGE == "ERANGE"
ERR_NOT_SUPPORTED == "ERR_NOT_SUPPORTED"
ENOTSUP == "ENOTSUP"
\* the statuses the model uses; every other status is its own errno name
\* here and EIO in the program
mxio_status_to_errno(status) ==
    CASE status = ERR_NOT_FOUND -> ENOENT
      [] status = ERR_NO_MEMORY -> ENOMEM
      [] status = ERR_INVALID_ARGS -> EINVAL
      [] status = ERR_TIMED_OUT -> ETIMEDOUT
      [] status = ERR_IO -> EIO
      [] status = ERR_BAD_HANDLE -> EBADF
      [] status = ERR_SHOULD_WAIT -> EAGAIN
      [] status = ERR_NOT_SUPPORTED -> ENOTSUP
      [] OTHER -> EIO
\* a call's result: the value returned and the status or errno it carries
Ret(v, e) == [v |-> v, err |-> e]

\* return ERRNO(e): errno = e, -1
ERRNO(e) == Ret(0 - 1, e)
\* return ERROR(status): errno = mxio_status_to_errno(status), -1
ERROR(status) == Ret(0 - 1, mxio_status_to_errno(status))
\* the status a bare -1 is read as
StatusOfMinusOne == ERR_INTERNAL

\* handle types of the startup bundle; "NONE" is the zeroed info word
HandleTypes == {"ROOT", "CWD", "REMOTE", "PIPE", "LOGGER", "OTHER"}
InfoWords == [type : HandleTypes, arg : 0..MAX_MXIO_FD, stdio : BOOLEAN]
ZeroInfo == [type |-> "NONE", arg |-> 0, stdio |-> FALSE]
Bundles == UNION {[1..k -> InfoWords] : k \in 0..MaxHandles}
\* the bundles of the runs that go on to make calls
RunBundles ==
    {<<>>} \cup {<<w>> : w \in {x \in InfoWords : x.arg = MAX_MXIO_FD - 1}}

\* ------------------------------------------------------------- strings
\* A C string is the sequence of its characters before the NUL.
\* size of mxio_cwd_path (scaled down)
PATH_MAX == 21
\* longest array poll accepts (scaled down)
MAX_POLL_NFDS == 2
\* capacity of a pipe, and the largest count passed to read and write
MaxBytes == 3
\* longest path argument
MaxPathLen == 3
Chars == {"/", ".", "a"}
Paths == UNION {[1..k -> Chars] : k \in 0..MaxPathLen}
Str(s) == [i \in 1..Len(s) |-> s[i]]
Root == <<"/">>
\* a PWD of one long segment, to which a segment of MaxPathLen characters
\* can only just be appended
LongPwd ==
    [i \in 1..(PATH_MAX - MaxPathLen - 2) |-> IF i = 1 THEN "/" ELSE "a"]
Unknown == <<"(", "u", "n", "k", "n", "o", "w", "n", ")">>
\* getenv("PWD") == NULL
NoPwd == <<"NULL">>

\* strchr / strrchr: index of the first / last c in s, 0 for NULL
StrChr(s, c) ==
    IF \E i \in 1..Len(s) : s[i] = c
    THEN CHOOSE i \in 1..Len(s) :
             s[i] = c /\ \A j \in 1..(i - 1) : s[j] # c
    ELSE 0
StrRChr(s, c) ==
    IF \E i \in 1..Len(s) : s[i] = c
    THEN CHOOSE i \in 1..Len(s) :
             s[i] = c /\ \A j \in (i + 1)..Len(s) : s[j] # c
    ELSE 0

\* the loop "for (; path[0]; path = next)" of update_cwd_path
RECURSIVE CwdLoop(_, _)
\* CwdLoop without the test "if (len != 1)" before the separator
CwdLoopSeparator(cwd, path) ==
    IF path = <<>> THEN cwd
    ELSE LET k == StrChr(path, "/")
             seglen == IF k = 0 THEN Len(path) ELSE k - 1
             next == IF k = 0 THEN <<>> ELSE SubSeq(path, k + 1, Len(path))
             seg == SubSeq(path, 1, seglen)
             x == StrRChr(cwd, "/")
             len == Len(cwd)
         IN IF seglen = 0 THEN CwdLoop(cwd, next)
            ELSE IF seglen = 1 /\ path[1] = "." THEN CwdLoop(cwd, next)
            ELSE IF seglen = 2 /\ path[1] = "." /\ path[2] = "."
            THEN IF x = 0 THEN Unknown
                 ELSE IF x = 1 THEN CwdLoop(SubSeq(cwd, 1, 1), next)
                 ELSE CwdLoop(SubSeq(cwd, 1, x - 1), next)
            ELSE IF len + seglen + 2 >= PATH_MAX THEN Unknown
            ELSE CwdLoop(cwd \o <<"/">> \o seg, next)

CwdLoop(cwd, path) ==
    IF path = <<>> THEN cwd
    ELSE LET k == StrChr(path, "/")
             seglen == IF k = 0 THEN Len(path) ELSE k - 1
             next == IF k = 0 THEN <<>> ELSE SubSeq(path, k + 1, Len(path))
             seg == SubSeq(path, 1, seglen)
             x == StrRChr(cwd, "/")
             len == Len(cwd)
         IN IF seglen = 0 THEN CwdLoop(cwd, next)
            ELSE IF seglen = 1 /\ path[1] = "." THEN CwdLoop(cwd, next)
            ELSE IF seglen = 2 /\ path[1] = "." /\ path[2] = "."
            THEN IF x = 0 THEN Unknown
                 ELSE IF x = 1 THEN CwdLoop(SubSeq(cwd, 1, 1), next)
                 ELSE CwdLoop(SubSeq(cwd, 1, x - 1), next)
            ELSE IF len + seglen + 2 >= PATH_MAX THEN Unknown
            ELSE IF len # 1 THEN CwdLoop(cwd \o <<"/">> \o seg, next)
            ELSE CwdLoop(cwd \o seg, next)

\* update_cwd_path without the restart at "/" for an absolute path
update_cwd_path_relative(cwd, path) == CwdLoop(cwd, path)

update_cwd_path(cwd, path) ==
    IF path # <<>> /\ path[1] = "/" THEN CwdLoop(Root, Tail(path))
    ELSE CwdLoop(cwd, path)

\* The directory a path names, on the list of the segments of the
\* directory it is resolved from; limit 0 stands for names of any length.
Cuts(p) == {0, Len(p) + 1} \cup {i \in 1..Len(p) : p[i] = "/"}
CutAt(p, k) ==
    CHOOSE c \in Cuts(p) : Cardinality({d \in Cuts(p) : d < c}) = k - 1
\* the pieces of p between its slashes, empty ones included
Pieces(p) ==
    [k \in 1..(Cardinality(Cuts(p)) - 1) |->
        SubSeq(p, CutAt(p, k) + 1, CutAt(p, k + 1) - 1)]
NonEmpty(q) == q # <<>>
Segments(p) == SelectSeq(Pieces(p), NonEmpty)
RECURSIVE Render(_)
Render(segs) ==
    IF segs = <<>> THEN <<>>
    ELSE <<"/">> \o Head(segs) \o Render(Tail(segs))
RenderCwd(segs) == IF segs = <<>> THEN <<"/">> ELSE Render(segs)
\* segs after the pieces i.. of q; limit 0 stands for no limit
RECURSIVE Walk(_, _, _, _)
Walk(segs, q, i, limit) ==
    IF i > Len(q) THEN RenderCwd(segs)
    ELSE IF q[i] = <<>> \/ q[i] = <<".">> THEN Walk(segs, q, i + 1, limit)
    ELSE IF q[i] = <<".", ".">>
    THEN Walk(IF segs = <<>> THEN segs ELSE SubSeq(segs, 1, Len(segs) - 1),
              q, i + 1, limit)
    ELSE IF limit > 0 /\ Len(RenderCwd(segs)) + Len(q[i]) + 2 >= limit
    THEN Unknown
    ELSE Walk(Append(segs, q[i]), q, i + 1, limit)
Normalize(cwd, path, limit) ==
    IF path # <<>> /\ path[1] = "/" THEN Walk(<<>>, Pieces(path), 1, limit)
    ELSE Walk(Segments(cwd), Pieces(path), 1, limit)
\* the directory the transport opens for path, from an object open on dir
Resolve(dir, path) == Normalize(dir, path, 0)

\* what a call can hand back through its pointer arguments
NoOut == <<>>

VARIABLES
    phase,             \* "boot": inside __libc_extensions_init, "run": after it
    handle_info,       \* the bundle's info words
    n,                 \* loop index of the startup walk (1-based)
    stdio_fd,          \* local stdio_fd of __libc_extensions_init
    root_given,        \* the bundle held a ROOT handle (history)
    mxio_fdtab,        \* fd -> object or NULL
    oob_write,         \* a store went outside mxio_fdtab
    uaf,               \* a freed object has been used
    mxio_root_handle,
    mxio_cwd_handle,
    mxio_root_init,
    nobj,              \* objects constructed so far
    refcount,          \* io->refcount
    dupcount,          \* io->dupcount
    closes,            \* how often io->ops->close(io) ran (history)
    frees,             \* how often the object was freed (history)
    installed,         \* the object was stored into mxio_fdtab (history)
    threads,           \* the threads that make calls
    calls,             \* calls started so far
    pc,                \* where each thread is
    call,              \* the call a thread is in, or its last one
    io,                \* local io of the call
    io_to_close,       \* local io_to_close of mxio_bind_to_fd
    ret,               \* result of a thread's last call
    pre,               \* what the call found at its fd when it started
    pwd,               \* local cwd of __libc_extensions_init: getenv("PWD")
    mxio_cwd_path,     \* the cwd string
    flags,             \* io->flags & MXIO_FLAG_NONBLOCK
    avail,             \* bytes the transport of an object has ready to read
    room,              \* bytes the transport of an object can take
    dir,               \* the DIR of the directory stream
    dirpos,            \* where the remote stands in each directory
    dirent,            \* what readdir returned last
    fetched,           \* the READDIR requests of the stream (history)
    rewinds,           \* how often rewinddir has run (history)
    top,               \* a transport op ran in the current call (history)
    waited,            \* the current call went through mxio_wait_fd (history)
    out,               \* what the last call wrote through its pointers
    mxio_lock,         \* the thread that holds mxio_lock, or NoThread
    mxio_cwd_lock,     \* the thread that holds mxio_cwd_lock, or NoThread
    mxio_umask,        \* __mxio_global_state.umask
    cwd_dir            \* the directory opened: at "cwd" of mxio_cwd_handle,
                       \* at a thread of the iodir, then the new object, of
                       \* its chdir (history)

boot == <<phase, handle_info, n, stdio_fd, root_given>>
roots == <<mxio_root_handle, mxio_cwd_handle, mxio_root_init>>
heap == <<refcount, dupcount, closes, frees>>
locals == <<pc, call, io, io_to_close, ret, pre>>
env == <<mxio_cwd_path, flags, avail, room>>
hist == <<top, waited, out>>
sync == <<mxio_lock, mxio_cwd_lock, mxio_umask>>
stream == <<dir, dirpos, dirent, fetched, rewinds>>
vars == <<boot, mxio_fdtab, oob_write, uaf, roots, nobj, heap, installed,
          threads, calls, locals, pwd, env, hist, sync, cwd_dir, stream>>

\* ------------------------------------------------------------ the heap
\* The object fields as one value, so that a call's steps compose.
Heap == [refcount |-> refcount, dupcount |-> dupcount,
         closes |-> closes, frees |-> frees]

SetHeap(h) ==
    /\ refcount' = h.refcount
    /\ dupcount' = h.dupcount
    /\ closes' = h.closes
    /\ frees' = h.frees

Sat2(k) == IF k >= 2 THEN 2 ELSE k

\* a transport constructor: refcount 1, dupcount 0
mxio_create(h, o) ==
    [h EXCEPT !.refcount[o] = 1, !.dupcount[o] = 0]

mxio_acquire(h, o) == [h EXCEPT !.refcount[o] = @ + 1]

\* atomic_fetch_sub(&io->refcount, 1) == 1 frees the object; what the freed
\* memory holds afterwards is not determined by the program.
mxio_release(h, o) ==
    IF h.refcount[o] = 1
    THEN {[h EXCEPT !.refcount[o] = 0, !.frees[o] = Sat2(@ + 1)]}
         \cup {[h EXCEPT !.refcount[o] = g, !.dupcount[o] = g,
                         !.frees[o] = Sat2(@ + 1)] : g \in Garbage}
    ELSE {[h EXCEPT !.refcount[o] = @ - 1]}

\* io->ops->close(io)
ops_close(h, o) == [h EXCEPT !.closes[o] = Sat2(@ + 1)]

SlotsOf(tab, o) == {fd \in Fds : tab[fd] = o}

NoCall == [op |-> "none", a |-> 0, b |-> 0, s |-> 0]

\* no DIR: what calloc hands out is all zero, ptr NULL included
NoDir == [open |-> FALSE, fd |-> 0 - 1, size |-> 0, ptr |-> NULL,
          data |-> <<>>, lock |-> NoThread]
\* readdir returned NULL, or has not been called
NoEntry == [name |-> "", gen |-> 0 - 1]
\* no READDIR request since the stream was opened or rewound
NoFetch == [since |-> 0, cmd |-> "", got |-> FALSE, tick |-> FALSE]
NoPre == [io |-> NULL, refcount |-> 0, dupcount |-> 0, closes |-> 0,
          chained |-> FALSE]

\* ------------------------------------------------------------ startup
InitEnv(bundles, thr, pwds) ==
    /\ pwd \in pwds
    /\ mxio_cwd_path = Root
    /\ cwd_dir = [x \in Threads \cup {"cwd"} |-> Root]
    /\ mxio_lock = NoThread
    /\ mxio_cwd_lock = NoThread
    /\ mxio_umask = 0
    /\ flags = [o \in Objs |-> FALSE]
    /\ avail = [o \in Objs |-> 0]
    /\ room = [o \in Objs |-> 0]
    /\ top = FALSE
    /\ waited = FALSE
    /\ out = NoOut
    /\ phase = "boot"
    /\ handle_info \in bundles
    /\ threads = thr
    /\ n = 1
    /\ stdio_fd = 0 - 1
    /\ root_given = FALSE
    /\ mxio_fdtab = [fd \in Fds |-> NULL]
    /\ oob_write = FALSE
    /\ uaf = FALSE
    /\ mxio_root_handle = NULL
    /\ mxio_cwd_handle = NULL
    /\ mxio_root_init = TRUE
    /\ nobj = 0
    /\ refcount = [o \in Objs |-> 0]
    /\ dupcount = [o \in Objs |-> 0]
    /\ closes = [o \in Objs |-> 0]
    /\ frees = [o \in Objs |-> 0]
    /\ installed = [o \in Objs |-> FALSE]
    /\ calls = 0
    /\ pc = [t \in Threads |-> "idle"]
    /\ call = [t \in Threads |-> NoCall]
    /\ io = [t \in Threads |-> NULL]
    /\ io_to_close = [t \in Threads |-> NULL]
    /\ ret = [t \in Threads |-> Ret(0, NO_ERROR)]
    /\ pre = [t \in Threads |-> NoPre]
    /\ dir = NoDir
    /\ dirpos = [o \in Objs |-> 0]
    /\ dirent = NoEntry
    /\ fetched = NoFetch
    /\ rewinds = 0

\* PWD is not set
InitState(bundles, thr) == InitEnv(bundles, thr, {NoPwd})

Init == InitState(RunBundles, Threads)

\* the store mxio_fdtab[arg] = o of the startup walk, dupcount++ included
InstallAt(arg, o) ==
    /\ IF arg \in Fds
       THEN /\ mxio_fdtab' = [mxio_fdtab EXCEPT ![arg] = o]
            /\ installed' = [installed EXCEPT ![o] = TRUE]
            /\ oob_write' = oob_write
       ELSE /\ oob_write' = TRUE
            /\ UNCHANGED <<mxio_fdtab, installed>>
    /\ SetHeap([mxio_create(Heap, o) EXCEPT !.dupcount[o] = 1])

\* one iteration of the loop over the bundle
InitHandle ==
    /\ phase = "boot"
    /\ n <= Len(handle_info)
    /\ LET info == handle_info[n]
           o == nobj + 1
           twin == /\ n + 1 <= Len(handle_info)
                   /\ handle_info[n] = handle_info[n + 1]
       IN /\ stdio_fd' = IF info.stdio /\ info.arg < MAX_MXIO_FD
                         THEN info.arg ELSE stdio_fd
          /\ CASE info.type = "ROOT" ->
                    /\ mxio_root_handle' = o
                    /\ SetHeap(mxio_create(Heap, o))
                    /\ nobj' = o
                    /\ handle_info' = [handle_info EXCEPT ![n] = ZeroInfo]
                    /\ UNCHANGED <<mxio_fdtab, installed, oob_write,
                                   mxio_cwd_handle>>
               [] info.type = "CWD" ->
                    /\ mxio_cwd_handle' = o
                    /\ SetHeap(mxio_create(Heap, o))
                    /\ nobj' = o
                    /\ handle_info' = [handle_info EXCEPT ![n] = ZeroInfo]
                    /\ UNCHANGED <<mxio_fdtab, installed, oob_write,
                                   mxio_root_handle>>
               [] info.type = "REMOTE" ->
                    /\ InstallAt(info.arg, o)
                    /\ nobj' = o
                    /\ handle_info' =
                         IF twin
                         THEN [handle_info EXCEPT ![n] = ZeroInfo,
                                                  ![n + 1] = ZeroInfo]
                         ELSE [handle_info EXCEPT ![n] = ZeroInfo]
                    /\ UNCHANGED <<mxio_root_handle, mxio_cwd_handle>>
               [] info.type \in {"PIPE", "LOGGER"} ->
                    /\ InstallAt(info.arg, o)
                    /\ nobj' = o
                    /\ handle_info' = [handle_info EXCEPT ![n] = ZeroInfo]
                    /\ UNCHANGED <<mxio_root_handle, mxio_cwd_handle>>
               [] OTHER ->
                    UNCHANGED <<mxio_fdtab, installed, oob_write, heap, nobj,
                                handle_info, mxio_root_handle,
                                mxio_cwd_handle>>
    /\ n' = n + 1
    /\ root_given' = (root_given \/ handle_info[n].type = "ROOT")
    /\ UNCHANGED <<phase, uaf, mxio_root_init, threads, calls, locals, pwd,
                   env, hist, sync, cwd_dir, stream>>

\* fds 0, 1, 2 that the bundle left unbound
RECURSIVE StdioLoop(_, _, _, _, _, _)
StdioLoop(k, tab, h, inst, cnt, use_for_stdio) ==
    IF k >= 3 THEN [tab |-> tab, h |-> h, inst |-> inst, cnt |-> cnt]
    ELSE IF tab[k] # NULL
         THEN StdioLoop(k + 1, tab, h, inst, cnt, use_for_stdio)
         ELSE IF use_for_stdio # NULL
              THEN StdioLoop(k + 1,
                       [tab EXCEPT ![k] = use_for_stdio],
                       [h EXCEPT !.dupcount[use_for_stdio] = @ + 1],
                       inst, cnt, use_for_stdio)
              ELSE StdioLoop(k + 1,
                       [tab EXCEPT ![k] = cnt + 1],
                       [mxio_create(h, cnt + 1)
                           EXCEPT !.dupcount[cnt + 1] = 1],
                       [inst EXCEPT ![cnt + 1] = TRUE],
                       cnt + 1, use_for_stdio)

InitStdio ==
    /\ phase = "boot"
    /\ n > Len(handle_info)
    /\ LET use_for_stdio == IF stdio_fd >= 0 THEN mxio_fdtab[stdio_fd]
                            ELSE NULL
           r == StdioLoop(0, mxio_fdtab, Heap, installed, nobj,
                          use_for_stdio)
       IN /\ mxio_fdtab' = r.tab
          /\ SetHeap(r.h)
          /\ installed' = r.inst
          /\ nobj' = r.cnt
    /\ mxio_cwd_path' = IF pwd # NoPwd THEN update_cwd_path(mxio_cwd_path, pwd)
                        ELSE mxio_cwd_path
    /\ phase' = "roots"
    /\ UNCHANGED <<handle_info, n, stdio_fd, root_given, oob_write, uaf, roots,
                   threads, calls, locals, pwd, flags, avail, room, hist, sync,
                   cwd_dir, stream>>

\* root and cwd placeholders, atexit registration
InitRoots ==
    /\ phase = "roots"
    /\ LET needroot == mxio_root_handle = NULL
           c1 == IF needroot THEN nobj + 1 ELSE nobj
           needcwd == mxio_cwd_handle = NULL
           c2 == IF needcwd THEN c1 + 1 ELSE c1
           h1 == IF needroot THEN mxio_create(Heap, c1) ELSE Heap
           h2 == IF needcwd THEN mxio_create(h1, c2) ELSE h1
       IN /\ mxio_root_handle' = IF needroot THEN c1 ELSE mxio_root_handle
          /\ mxio_cwd_handle' = IF needcwd THEN c2 ELSE mxio_cwd_handle
          /\ mxio_root_init' = IF needroot THEN mxio_root_init ELSE TRUE
          /\ SetHeap(h2)
          /\ nobj' = c2
    /\ phase' = "run"
    /\ handle_info' = <<>>
    /\ n' = 1
    /\ stdio_fd' = 0 - 1
    /\ pwd' = NoPwd
    /\ UNCHANGED root_given
    /\ cwd_dir' = [cwd_dir EXCEPT !["cwd"] = mxio_cwd_path]
    /\ UNCHANGED <<mxio_fdtab, oob_write, uaf, installed, threads, calls,
                   locals, env, hist, sync, stream>>

\* ------------------------------------------------------- calls: common
\* A finished call stays in "done" with its arguments and result until the
\* caller has taken the result; nothing else runs in between.
Quiet == \A u \in Threads : pc[u] # "done"

\* Once a call has used a freed object the behaviour of the program is
\* undefined: the calls in progress finish, no further call is followed.
Touch(S) == uaf' = (uaf \/ \E o \in S \ {NULL} : frees[o] > 0)

Idle(t) ==
    /\ phase = "run"
    /\ ~uaf
    /\ Quiet
    /\ t \in threads
    /\ pc[t] = "idle"

\* mtx_lock(&mxio_lock) returns only when no thread holds the mutex
Unlocked == mxio_lock = NoThread

\* a call that can change the table counts against MaxCalls
Begin(t) ==
    /\ Idle(t)
    /\ calls < MaxCalls
    /\ calls' = calls + 1

\* The call's arguments, kept while it runs.  The fd it was given (a) and
\* what it found there (pre) are history that no step of the call reads;
\* they are recorded in the runs of one thread, where a call's result is
\* compared with the state it started from.
Sequential == threads = MainThread

Enter(t, op, a, b, s, p) ==
    /\ call' = [call EXCEPT ![t] =
                  [op |-> op, a |-> IF Sequential THEN a ELSE 0, b |-> b,
                   s |-> s]]
    /\ pre' = [pre EXCEPT ![t] = IF Sequential THEN p ELSE NoPre]

\* what a call finds at fd when it starts
Snap(fd) ==
    IF fd \in Fds /\ mxio_fdtab[fd] # NULL
    THEN [io |-> mxio_fdtab[fd],
          refcount |-> refcount[mxio_fdtab[fd]],
          dupcount |-> dupcount[mxio_fdtab[fd]],
          closes |-> closes[mxio_fdtab[fd]],
          chained |-> FALSE]
    ELSE NoPre

\* the call returns r; its locals die, c is what is remembered of it
FinishWith(t, c, r) ==
    /\ pc' = [pc EXCEPT ![t] = "done"]
    /\ ret' = [ret EXCEPT ![t] = r]
    /\ call' = [call EXCEPT ![t] = c]
    /\ pre' = [pre EXCEPT ![t] = NoPre]
    /\ io' = [io EXCEPT ![t] = NULL]
    /\ io_to_close' = [io_to_close EXCEPT ![t] = NULL]

\* the call named op returns r; its arguments and locals die
Finish(t, op, r) == FinishWith(t, [NoCall EXCEPT !.op = op], r)

\* the caller has the result and is ready for its next call
ReturnToCaller(t) ==
    /\ pc[t] = "done"
    /\ pc' = [pc EXCEPT ![t] = "idle"]
    /\ call' = [call EXCEPT ![t] = NoCall]
    /\ ret' = [ret EXCEPT ![t] = Ret(0, NO_ERROR)]
    /\ top' = FALSE
    /\ waited' = FALSE
    /\ out' = NoOut
    /\ UNCHANGED <<boot, stream, sync, cwd_dir, mxio_fdtab, oob_write, uaf, roots, nobj, heap,
                   installed, threads, calls, io, io_to_close, pre, pwd, env>>

\* __mxio_fd_to_io: the object at fd, or NULL
fd_to_io(fd) == IF fd \in Fds THEN mxio_fdtab[fd] ELSE NULL

\* ------------------------------------------- an operation that uses an fd
\* read, write, ioctl, mxio_wait_fd, ...: fd_to_io(fd), the transport op,
\* mxio_release(io).  Lookup is the first half, ReleaseHeld the second.
Lookup(t, fd) ==
    /\ Unlocked
    /\ Idle(t)
    /\ calls' = calls
    /\ Touch({fd_to_io(fd)})
    /\ IF fd_to_io(fd) = NULL
       THEN /\ Finish(t, "use", Ret(0 - 1, EBADF))
            /\ UNCHANGED heap
       ELSE /\ Enter(t, "use", fd, 0, 0, Snap(fd))
            /\ SetHeap(mxio_acquire(Heap, fd_to_io(fd)))
            /\ io' = [io EXCEPT ![t] = fd_to_io(fd)]
            /\ pc' = [pc EXCEPT ![t] = "holding"]
            /\ UNCHANGED <<ret, io_to_close>>
    /\ UNCHANGED <<boot, stream, sync, cwd_dir, mxio_fdtab, oob_write, roots, nobj, installed,
                   threads, pwd, env, hist>>

ReleaseHeld(t) ==
    /\ Quiet
    /\ pc[t] = "holding"
    /\ Touch({io[t]})
    /\ \E h \in mxio_release(Heap, io[t]) : SetHeap(h)
    /\ Finish(t, "use", Ret(0, NO_ERROR))
    /\ top' = Sequential
    /\ UNCHANGED <<boot, stream, sync, cwd_dir, mxio_fdtab, oob_write, roots, nobj, installed,
                   threads, calls, pwd, env, waited, out>>

\* ----------------------------------------------------------------- close
\* close(fd): the section under mxio_lock; a is the fd the caller's program
\* started from (fd itself, or the fd that close(dup(a)) duplicated)
CloseSection(t, op, a, fd, p) ==
    IF fd < 0 \/ fd >= MAX_MXIO_FD \/ fd_to_io(fd) = NULL
    THEN /\ Finish(t, op, Ret(0 - 1, EBADF))
         /\ UNCHANGED <<mxio_fdtab, heap>>
    ELSE LET o == mxio_fdtab[fd]
         IN /\ Enter(t, op, a, 0, 0, p)
            /\ SetHeap([Heap EXCEPT !.dupcount[o] = @ - 1])
            /\ mxio_fdtab' = [mxio_fdtab EXCEPT ![fd] = NULL]
            /\ io' = [io EXCEPT ![t] = o]
            /\ pc' = [pc EXCEPT ![t] =
                        IF dupcount[o] - 1 > 0 THEN "close_release"
                        ELSE "close_transport"]
            /\ UNCHANGED <<ret, io_to_close>>

CloseLocked(t, fd) ==
    /\ Unlocked
    /\ Begin(t)
    /\ Touch({fd_to_io(fd)})
    /\ CloseSection(t, "close", fd, fd, Snap(fd))
    /\ UNCHANGED <<boot, stream, sync, cwd_dir, oob_write, roots, nobj, installed, threads, pwd, env,
                   hist>>

\* close(): after mtx_unlock
CloseTail(t) ==
    /\ Quiet
    /\ pc[t] \in {"close_release", "close_transport"}
    /\ Touch({io[t]})
    /\ LET h0 == IF pc[t] = "close_transport" THEN ops_close(Heap, io[t])
                 ELSE Heap
       IN \E h \in mxio_release(h0, io[t]) : SetHeap(h)
    /\ Finish(t, call[t].op, Ret(0, NO_ERROR))
    /\ UNCHANGED <<boot, stream, sync, cwd_dir, mxio_fdtab, oob_write, roots, nobj, installed,
                   threads, calls, pwd, env, hist>>

\* ------------------------------------------------------- mxio_bind_to_fd
\* The scan "for (fd = starting_fd; fd < MAX_MXIO_FD; fd++)" for a free slot.
\* An index below 0 reads memory in front of the table, which may or may not
\* hold NULL.  The result is the set of fds the scan can stop at;
\* MAX_MXIO_FD stands for "no free fd".
RECURSIVE ScanFree(_, _)
ScanFree(tab, fd) ==
    IF fd >= MAX_MXIO_FD THEN {MAX_MXIO_FD}
    ELSE IF fd < 0 THEN {fd} \cup ScanFree(tab, fd + 1)
    ELSE IF tab[fd] = NULL THEN {fd}
    ELSE ScanFree(tab, fd + 1)

\* The section of mxio_bind_to_fd under mxio_lock, for object o.  The set of
\* outcomes: the table, the heap, the fd returned (-1 with errno on failure),
\* the object left in io_to_close, and whether a store left the table.
BindStore(tab, h, o, fd, io2c) ==
    [tab |-> IF fd \in Fds THEN [tab EXCEPT ![fd] = o] ELSE tab,
     h |-> [h EXCEPT !.dupcount[o] = @ + 1],
     r |-> Ret(fd, NO_ERROR),
     io_to_close |-> io2c,
     oob |-> fd \notin Fds]

BindFail(tab, h, e) ==
    [tab |-> tab, h |-> h, r |-> Ret(0 - 1, e), io_to_close |-> NULL,
     oob |-> FALSE]

mxio_bind_to_fd(tab, h, o, fd, starting_fd) ==
    IF fd < 0
    THEN {IF f = MAX_MXIO_FD THEN BindFail(tab, h, EMFILE)
          ELSE BindStore(tab, h, o, f, NULL) : f \in ScanFree(tab, starting_fd)}
    ELSE IF fd >= MAX_MXIO_FD
    THEN {BindFail(tab, h, EINVAL)}
    ELSE LET old == tab[fd]
         IN IF old = NULL
            THEN {BindStore(tab, h, o, fd, NULL)}
            ELSE LET h1 == [h EXCEPT !.dupcount[old] = @ - 1]
                 IN IF h1.dupcount[old] > 0
                    THEN {BindStore(tab, h2, o, fd, NULL) :
                              h2 \in mxio_release(h1, old)}
                    ELSE {BindStore(tab, h1, o, fd, old)}

\* the callers of mxio_bind_to_fd that made the object they bind
Creators == {"handle_fd", "open", "openat"}

\* What remains of a call after mxio_bind_to_fd dropped the lock: the close
\* and release of io_to_close, then the caller's handling of a failed bind
\* (mxio_dup releases io; mxio_handle_fd and vopenat close and release it).
BindTailHeaps(h, o, io2c, r, op) ==
    LET h1 == IF io2c # NULL THEN mxio_release(ops_close(h, io2c), io2c)
              ELSE {h}
    IN IF r.v >= 0 THEN h1
       ELSE IF op \in Creators
            THEN UNION {mxio_release(ops_close(x, o), o) : x \in h1}
            ELSE UNION {mxio_release(x, o) : x \in h1}

\* the locked section of mxio_bind_to_fd run by thread t for object o
DoBind(t, o, fd, starting_fd, h, op, a, p) ==
    \E b \in mxio_bind_to_fd(mxio_fdtab, h, o, fd, starting_fd) :
        /\ Touch({o, fd_to_io(fd)})
        /\ mxio_fdtab' = b.tab
        /\ SetHeap(b.h)
        /\ oob_write' = (oob_write \/ b.oob)
        /\ installed' = IF b.r.v \in Fds THEN [installed EXCEPT ![o] = TRUE]
                        ELSE installed
        /\ IF b.io_to_close # NULL \/ b.r.v < 0
           THEN /\ Enter(t, op, a, fd, starting_fd, p)
                /\ pc' = [pc EXCEPT ![t] = "bind_tail"]
                /\ ret' = [ret EXCEPT ![t] = b.r]
                /\ io' = [io EXCEPT ![t] = o]
                /\ io_to_close' = [io_to_close EXCEPT ![t] = b.io_to_close]
           ELSE IF op = "close_dup"
           THEN /\ Enter(t, op, a, fd, starting_fd, p)
                /\ pc' = [pc EXCEPT ![t] = "chain_close"]
                /\ ret' = [ret EXCEPT ![t] = b.r]
                /\ io' = [io EXCEPT ![t] = NULL]
                /\ io_to_close' = io_to_close
           ELSE Finish(t, op, b.r)

\* ------------------------------------------------- dup, dup2, dup3, fcntl
\* The callers of mxio_dup and the arguments they pass; "close_dup" is the
\* program close(dup(fd)).
DupOps == {"dup", "dup2", "dup3", "fcntl", "close_dup"}

DupArgs(op, newfd, starting_fd) ==
    CASE op \in {"dup", "close_dup"} -> newfd = 0 - 1 /\ starting_fd = 0
      [] op \in {"dup2", "dup3"} -> starting_fd = 0
      [] op = "fcntl" -> newfd = 0 - 1

\* mxio_dup up to and including fd_to_io(oldfd); dup3 first rejects
\* oldfd == newfd.
DupLookup(t, op, oldfd, newfd, starting_fd) ==
    /\ Unlocked
    /\ DupArgs(op, newfd, starting_fd)
    /\ Begin(t)
    /\ Touch(IF op = "dup3" /\ oldfd = newfd THEN {} ELSE {fd_to_io(oldfd)})
    /\ IF op = "dup3" /\ oldfd = newfd
       THEN /\ Finish(t, op, Ret(0 - 1, EINVAL))
            /\ UNCHANGED heap
       ELSE IF fd_to_io(oldfd) = NULL
       THEN /\ Finish(t, op, Ret(0 - 1, EBADF))
            /\ UNCHANGED heap
       ELSE /\ Enter(t, op, oldfd, newfd, starting_fd, Snap(oldfd))
            /\ SetHeap(mxio_acquire(Heap, fd_to_io(oldfd)))
            /\ io' = [io EXCEPT ![t] = fd_to_io(oldfd)]
            /\ pc' = [pc EXCEPT ![t] = "dup_bind"]
            /\ UNCHANGED <<ret, io_to_close>>
    /\ UNCHANGED <<boot, stream, sync, cwd_dir, mxio_fdtab, oob_write, roots, nobj, installed,
                   threads, pwd, env, hist>>

\* mxio_dup: the locked section of its mxio_bind_to_fd
DupBind(t) ==
    /\ Unlocked
    /\ Quiet
    /\ pc[t] = "dup_bind"
    /\ DoBind(t, io[t], call[t].b, call[t].s, Heap, call[t].op, call[t].a,
              pre[t])
    /\ UNCHANGED <<boot, stream, sync, cwd_dir, roots, nobj, threads, calls, pwd, env, hist>>

\* mxio_handle_fd: mxio_waitable_create and the locked section of
\* mxio_bind_to_fd(io, -1, 0)
BindNew(t, op, fd, starting_fd) ==
    /\ Unlocked
    /\ nobj < MaxObj
    /\ Begin(t)
    /\ nobj' = nobj + 1
    /\ DoBind(t, nobj + 1, fd, starting_fd, mxio_create(Heap, nobj + 1), op,
              fd, Snap(fd))
    /\ UNCHANGED <<boot, stream, sync, cwd_dir, roots, threads, pwd, env, hist>>

\* after mxio_bind_to_fd unlocked: io_to_close, and the caller's error path
BindTail(t) ==
    /\ Quiet
    /\ pc[t] = "bind_tail"
    /\ Touch({io_to_close[t]} \cup (IF ret[t].v < 0 THEN {io[t]} ELSE {}))
    /\ \E h \in BindTailHeaps(Heap, io[t], io_to_close[t], ret[t],
                              call[t].op) : SetHeap(h)
    /\ Finish(t, call[t].op, ret[t])
    /\ UNCHANGED <<boot, stream, sync, cwd_dir, mxio_fdtab, oob_write, roots, nobj, installed,
                   threads, calls, pwd, env, hist>>

\* close(dup(fd)): the locked section of the close of the fd dup returned
ChainClose(t) ==
    /\ Quiet
    /\ pc[t] = "chain_close"
    /\ Touch({fd_to_io(ret[t].v)})
    /\ CloseSection(t, "close_dup", call[t].a, ret[t].v,
                    [pre[t] EXCEPT !.chained = TRUE])
    /\ UNCHANGED <<boot, stream, sync, cwd_dir, oob_write, roots, nobj, installed, threads, calls,
                   pwd, env, hist>>

\* --------------------------------------------------- mxio_unbind_from_fd
mxio_unbind_from_fd(t, fd) ==
    /\ Unlocked
    /\ Begin(t)
    /\ Touch({fd_to_io(fd)})
    /\ IF fd >= MAX_MXIO_FD \/ mxio_fdtab[fd] = NULL
       THEN /\ Finish(t, "unbind", Ret(0 - 1, ERR_INVALID_ARGS))
            /\ UNCHANGED <<mxio_fdtab, heap>>
       ELSE IF dupcount[mxio_fdtab[fd]] > 1 \/ refcount[mxio_fdtab[fd]] > 1
       THEN /\ Finish(t, "unbind", Ret(0 - 1, ERR_UNAVAILABLE))
            /\ UNCHANGED <<mxio_fdtab, heap>>
       ELSE /\ SetHeap([Heap EXCEPT !.dupcount[mxio_fdtab[fd]] = 0])
            /\ mxio_fdtab' = [mxio_fdtab EXCEPT ![fd] = NULL]
            /\ Finish(t, "unbind", Ret(0, NO_ERROR))
    /\ UNCHANGED <<boot, stream, sync, cwd_dir, oob_write, roots, nobj, installed, threads, pwd, env,
                   hist>>

\* ------------------------------------------- read, write, pread, pwrite
ReadOps == {"read", "pread"}
WriteOps == {"write", "pwrite"}
IoOps == ReadOps \cup WriteOps
IoCounts == {1, MaxBytes}
Min(a, b) == IF a <= b THEN a ELSE b

\* io->ops->read / io->ops->write of a pipe-like transport: the bytes moved,
\* or ERR_SHOULD_WAIT when there is no data / no room
TransportIo(op, o, count) ==
    LET have == IF op \in ReadOps THEN avail[o] ELSE room[o]
    IN IF have = 0 THEN [status |-> ERR_SHOULD_WAIT, n |-> 0]
       ELSE [status |-> NO_ERROR, n |-> Min(count, have)]

\* the exit test of the loop "for (;;)" of read, write, pread, pwrite without
\* the flag
LoopBreaksOnStatus(status, nonblock) == status # ERR_SHOULD_WAIT
\* the exit test without the status
LoopBreaksAlways(status, nonblock) == TRUE

LoopBreaks(status, nonblock) == status # ERR_SHOULD_WAIT \/ nonblock

\* the signal mxio_wait_fd waits for is pending on o
Ready(op, o) == IF op \in ReadOps THEN avail[o] > 0 ELSE room[o] > 0

\* read(fd, buf, count) up to and including fd_to_io(fd)
IoBegin(t, op, fd, buf, count) ==
    /\ Unlocked
    /\ Idle(t)
    /\ calls' = calls
    /\ IF buf = NULL
       THEN /\ Finish(t, op, Ret(0 - 1, EINVAL))
            /\ UNCHANGED <<heap, uaf>>
       ELSE IF fd_to_io(fd) = NULL
       THEN /\ Finish(t, op, Ret(0 - 1, EBADF))
            /\ UNCHANGED <<heap, uaf>>
       ELSE /\ Touch({fd_to_io(fd)})
            /\ Enter(t, op, fd, count, fd, Snap(fd))
            /\ SetHeap(mxio_acquire(Heap, fd_to_io(fd)))
            /\ io' = [io EXCEPT ![t] = fd_to_io(fd)]
            /\ pc' = [pc EXCEPT ![t] = "io_op"]
            /\ UNCHANGED <<ret, io_to_close>>
    /\ UNCHANGED <<boot, stream, sync, cwd_dir, mxio_fdtab, oob_write, roots, nobj, installed,
                   threads, pwd, env, hist>>

\* one round of the loop: the transport op and the exit test
IoOp(t) ==
    /\ Quiet
    /\ pc[t] = "io_op"
    /\ Touch({io[t]})
    /\ LET o == io[t]
           r == TransportIo(call[t].op, o, call[t].b)
       IN /\ IF call[t].op \in ReadOps
             THEN /\ avail' = [avail EXCEPT ![o] = @ - r.n]
                  /\ room' = room
             ELSE /\ room' = [room EXCEPT ![o] = @ - r.n]
                  /\ avail' = avail
          /\ ret' = [ret EXCEPT ![t] =
                       IF r.status = NO_ERROR THEN Ret(r.n, NO_ERROR)
                       ELSE Ret(0 - 1, mxio_status_to_errno(r.status))]
          /\ pc' = [pc EXCEPT ![t] =
                      IF LoopBreaks(r.status, flags[o]) THEN "io_release"
                      ELSE "io_wait"]
    /\ top' = TRUE
    /\ UNCHANGED <<boot, stream, sync, cwd_dir, mxio_fdtab, oob_write, roots, nobj, heap, installed,
                   threads, calls, call, io, io_to_close, pre, pwd,
                   mxio_cwd_path, flags, waited, out>>

\* mxio_wait_fd(fd, events, NULL, MX_TIME_INFINITE): a second fd_to_io(fd),
\* the wait for the signal, mxio_release; its result is not looked at
IoWait(t) ==
    /\ Quiet
    /\ pc[t] = "io_wait"
    /\ LET o == fd_to_io(call[t].s)
       IN /\ o # NULL => Ready(call[t].op, o)
          /\ Touch({o})
          /\ IF o = NULL THEN UNCHANGED heap
             ELSE \E h \in mxio_release(mxio_acquire(Heap, o), o) : SetHeap(h)
    /\ waited' = TRUE
    /\ pc' = [pc EXCEPT ![t] = "io_op"]
    /\ UNCHANGED <<boot, stream, sync, cwd_dir, mxio_fdtab, oob_write, roots, nobj, installed,
                   threads, calls, call, io, io_to_close, ret, pre, pwd, env,
                   top, out>>

\* after the loop: mxio_release(io); return STATUS(status)
IoRelease(t) ==
    /\ Quiet
    /\ pc[t] = "io_release"
    /\ Touch({io[t]})
    /\ \E h \in mxio_release(Heap, io[t]) : SetHeap(h)
    /\ Finish(t, call[t].op, ret[t])
    /\ UNCHANGED <<boot, stream, sync, cwd_dir, mxio_fdtab, oob_write, roots, nobj, installed,
                   threads, calls, pwd, env, hist>>

\* fcntl(fd, F_SETFL, status): nonblock is status & O_NONBLOCK
fcntl_SETFL(t, fd, nonblock) ==
    /\ Unlocked
    /\ Idle(t)
    /\ calls' = calls
    /\ IF fd_to_io(fd) = NULL
       THEN /\ Finish(t, "F_SETFL", Ret(0 - 1, EBADF))
            /\ UNCHANGED <<heap, uaf, flags>>
       ELSE LET o == fd_to_io(fd)
            IN /\ Touch({o})
               /\ flags' = [flags EXCEPT ![o] = nonblock]
               /\ \E h \in mxio_release(mxio_acquire(Heap, o), o) : SetHeap(h)
               /\ Finish(t, "F_SETFL", Ret(0, NO_ERROR))
    /\ UNCHANGED <<boot, stream, sync, cwd_dir, mxio_fdtab, oob_write, roots, nobj, installed,
                   threads, pwd, mxio_cwd_path, avail, room, hist>>

\* the other end of the pipe at fd: its writer adds k bytes
PeerWrite(fd, k) ==
    /\ phase = "run"
    /\ fd_to_io(fd) # NULL
    /\ avail[fd_to_io(fd)] + k <= MaxBytes
    /\ avail' = [avail EXCEPT ![fd_to_io(fd)] = @ + k]
    /\ UNCHANGED <<boot, stream, sync, cwd_dir, mxio_fdtab, oob_write, uaf, roots, nobj, heap,
                   installed, threads, calls, locals, pwd, mxio_cwd_path,
                   flags, room, hist>>

\* the other end of the pipe at fd: its reader makes room for k bytes
PeerRead(fd, k) ==
    /\ phase = "run"
    /\ fd_to_io(fd) # NULL
    /\ room[fd_to_io(fd)] + k <= MaxBytes
    /\ room' = [room EXCEPT ![fd_to_io(fd)] = @ + k]
    /\ UNCHANGED <<boot, stream, sync, cwd_dir, mxio_fdtab, oob_write, uaf, roots, nobj, heap,
                   installed, threads, calls, locals, pwd, mxio_cwd_path,
                   flags, avail, hist>>

\* ---------------------------------------------------------- open, openat
OpenFlags == [creat : BOOLEAN, directory : BOOLEAN, nonblock : BOOLEAN]
\* the flags as one word, with one bit each
FlagWord(fl) ==
    (IF fl.creat THEN 4 ELSE 0) + (IF fl.directory THEN 2 ELSE 0)
        + (IF fl.nonblock THEN 1 ELSE 0)
OpenStatus == {NO_ERROR, ERR_NOT_FOUND}
\* path arguments: "" and a name
OpenPaths == {<<>>, <<"a">>}

\* vopenat with the test of O_CREAT | O_DIRECTORY left out
OpenFlagsAccepted(fl) == FALSE

\* if (flags & O_CREAT) { if (flags & O_DIRECTORY) return ERRNO(EINVAL)
OpenFlagsRejected(fl) == fl.creat /\ fl.directory

\* vopenat(AT_FDCWD, path, flags) up to the end of the locked section of
\* mxio_bind_to_fd(io, -1, 0); BindTail is the rest.  The reference that
\* mxio_iodir takes on the cwd handle is released before the bind.
vopenat(t, op, path, fl) ==
    /\ Unlocked
    /\ op \in {"open", "openat"}
    /\ Begin(t)
    /\ nobj < MaxObj
    /\ IF OpenFlagsRejected(fl)
       THEN /\ FinishWith(t, [NoCall EXCEPT !.op = op, !.b = FlagWord(fl)], ERRNO(EINVAL))
            /\ UNCHANGED <<mxio_fdtab, oob_write, uaf, nobj, heap, installed,
                           flags, top>>
       ELSE IF path = <<>>
       THEN /\ FinishWith(t, [NoCall EXCEPT !.op = op, !.b = FlagWord(fl)],
                          ERROR(ERR_INVALID_ARGS))
            /\ UNCHANGED <<mxio_fdtab, oob_write, uaf, nobj, heap, installed,
                           flags, top>>
       ELSE \E r \in OpenStatus :
              /\ top' = TRUE
              /\ IF r # NO_ERROR
                 THEN /\ FinishWith(t, [NoCall EXCEPT !.op = op, !.b = FlagWord(fl)],
                                    ERROR(r))
                      /\ UNCHANGED <<mxio_fdtab, oob_write, uaf, nobj, heap,
                                     installed, flags>>
                 ELSE /\ nobj' = nobj + 1
                      /\ flags' = [flags EXCEPT ![nobj + 1] = fl.nonblock]
                      /\ DoBind(t, nobj + 1, 0 - 1, 0,
                                mxio_create(Heap, nobj + 1), op, 0 - 1, NoPre)
    /\ UNCHANGED <<boot, stream, sync, cwd_dir, roots, threads, pwd, mxio_cwd_path, avail, room,
                   waited, out>>

\* ----------------------------------------------------------------- pipe2
\* what mxio_pipe_pair answers
PipePairStatus == {NO_ERROR, ERR_NO_MEMORY}

\* close(fd) on a bound fd as one step: the table and the heaps it can leave
CloseNow(tab, h, fd) ==
    LET o == tab[fd]
        h1 == [h EXCEPT !.dupcount[o] = @ - 1]
        h2 == IF h1.dupcount[o] > 0 THEN h1 ELSE ops_close(h1, o)
    IN [tab |-> [tab EXCEPT ![fd] = NULL], hs |-> mxio_release(h2, o)]

\* mxio_close(o); mxio_release(o)
CloseRelease(hs, o) == UNION {mxio_release(ops_close(h, o), o) : h \in hs}

\* pipe2(pipefd, flags), run by a thread that no other call interleaves with
pipe2(t, flags_allowed) ==
    /\ Unlocked
    /\ Begin(t)
    /\ nobj + 2 <= MaxObj
    /\ IF ~flags_allowed
       THEN /\ Finish(t, "pipe2", ERRNO(EINVAL))
            /\ UNCHANGED <<mxio_fdtab, nobj, heap, installed, out>>
       ELSE \E r \in PipePairStatus :
         IF r # NO_ERROR
         THEN /\ Finish(t, "pipe2", ERROR(r))
              /\ UNCHANGED <<mxio_fdtab, nobj, heap, installed, out>>
         ELSE
           LET a == nobj + 1
               b == nobj + 2
               h0 == mxio_create(mxio_create(Heap, a), b)
           IN /\ nobj' = b
              /\ \E b1 \in mxio_bind_to_fd(mxio_fdtab, h0, a, 0 - 1, 0) :
                   IF b1.r.v < 0
                   THEN /\ \E h \in CloseRelease(CloseRelease({b1.h}, a), b) :
                              SetHeap(h)
                        /\ Finish(t, "pipe2", ERROR(StatusOfMinusOne))
                        /\ UNCHANGED <<mxio_fdtab, installed, out>>
                   ELSE \E b2 \in mxio_bind_to_fd(b1.tab, b1.h, b, 0 - 1, 0) :
                     IF b2.r.v < 0
                     THEN LET c == CloseNow(b2.tab, b2.h, b1.r.v)
                          IN /\ \E h \in CloseRelease(c.hs, b) : SetHeap(h)
                             /\ mxio_fdtab' = c.tab
                             /\ installed' = [installed EXCEPT ![a] = TRUE]
                             /\ Finish(t, "pipe2", ERROR(StatusOfMinusOne))
                             /\ out' = <<b1.r.v, 0 - 1>>
                     ELSE /\ SetHeap(b2.h)
                          /\ mxio_fdtab' = b2.tab
                          /\ installed' = [installed EXCEPT ![a] = TRUE,
                                                            ![b] = TRUE]
                          /\ Finish(t, "pipe2", Ret(0, NO_ERROR))
                          /\ out' = <<b1.r.v, b2.r.v>>
    /\ UNCHANGED <<boot, stream, sync, cwd_dir, oob_write, uaf, roots, threads, pwd, env, top, waited>>

\* ---------------------------------------------------------- poll, select
\* event bits, as sets: EPOLLIN, EPOLLOUT, EPOLLERR, EPOLLHUP, POLLNVAL
POLLNVAL == {"NVAL"}
\* what a caller asks for, and what wait_end can report
Requests == {{}, {"IN"}, {"IN", "OUT"}}
Reports == SUBSET {"IN", "OUT", "HUP"}
\* select reports the three classes of its sets
Classes == SUBSET {"IN", "OUT", "ERR"}
\* fds in a pollfd: negative, bound, bound, not open
PollFds == {0 - 1, 0, 1, MAX_MXIO_FD - 1}
PollEntries == [fd : PollFds, events : Requests]
\* arrays of every length poll accepts, and one that is too long
TooLong == [i \in 1..(MAX_POLL_NFDS + 1) |-> [fd |-> 0, events |-> {"IN"}]]
PollArrays ==
    UNION {[1..k -> PollEntries] : k \in 0..MAX_POLL_NFDS} \cup {TooLong}
\* select: size of an fd_set (past the end of the table), the fds its sets
\* mention, the values of n
FD_SETSIZE == MAX_MXIO_FD + 1
SelFds == {0, 1, MAX_MXIO_FD - 1}
SelN == {0, 2, MAX_MXIO_FD, FD_SETSIZE + 1}
\* the pollfd-like entries select builds for the fds below n
SelEntries(nfds, rfds, wfds, efds) ==
    [i \in 1..nfds |->
        [fd |-> i - 1,
         events |-> (IF i - 1 \in rfds THEN {"IN"} ELSE {})
                      \cup (IF i - 1 \in wfds THEN {"OUT"} ELSE {})
                      \cup (IF i - 1 \in efds THEN {"ERR"} ELSE {})]]
\* what mx_object_wait_many answers
WaitStatus == {NO_ERROR, ERR_TIMED_OUT, ERR_NO_MEMORY}

\* The first loop of poll and of select over the entries from i on.  st is
\* ios[] and revents so far, the status r and the number of wait items;
\* nowait are the objects whose wait_begin yields MX_HANDLE_INVALID.
ScanStart == [ios |-> <<>>, rev |-> <<>>, r |-> NO_ERROR, nvalid |-> 0]
RECURSIVE Scan(_, _, _, _, _)
Scan(op, e, i, st, nowait) ==
    IF i > Len(e) \/ st.r # NO_ERROR THEN st
    ELSE LET o == fd_to_io(e[i].fd)
             skip == [st EXCEPT !.ios = Append(@, NULL),
                                !.rev = Append(@, {})]
             take == [st EXCEPT !.ios = Append(@, o), !.rev = Append(@, {})]
         IN IF op = "poll" /\ e[i].fd < 0 THEN Scan(op, e, i + 1, skip, nowait)
            ELSE IF op = "select" /\ e[i].events = {}
            THEN Scan(op, e, i + 1, skip, nowait)
            ELSE IF o = NULL
            THEN IF op = "poll"
                 THEN Scan(op, e, i + 1,
                           [skip EXCEPT !.rev[i] = POLLNVAL], nowait)
                 ELSE [skip EXCEPT !.r = ERR_BAD_HANDLE]
            ELSE IF o \in nowait THEN [take EXCEPT !.r = ERR_INVALID_ARGS]
            ELSE Scan(op, e, i + 1, [take EXCEPT !.nvalid = @ + 1], nowait)

\* fd_to_io took a reference for every entry of ios that is not NULL
RECURSIVE AcquireAll(_, _)
AcquireAll(h, ios) ==
    IF ios = <<>> THEN h
    ELSE AcquireAll(IF Head(ios) = NULL THEN h
                    ELSE mxio_acquire(h, Head(ios)), Tail(ios))

\* the release loop stopping one entry short: "i < ios_used_max"
RECURSIVE ReleaseAllButLast(_, _)
ReleaseAllButLast(hs, ios) ==
    IF Len(ios) <= 1 THEN hs
    ELSE ReleaseAllButLast(IF Head(ios) = NULL THEN hs
                           ELSE UNION {mxio_release(h, Head(ios)) : h \in hs},
                           Tail(ios))

\* the loop "for (i = 0; i <= ios_used_max; i++) mxio_release(ios[i])"
RECURSIVE ReleaseAll(_, _)
ReleaseAll(hs, ios) ==
    IF ios = <<>> THEN hs
    ELSE ReleaseAll(IF Head(ios) = NULL THEN hs
                    ELSE UNION {mxio_release(h, Head(ios)) : h \in hs},
                    Tail(ios))

\* poll: "events & (pfd->events | EPOLLHUP | EPOLLERR)" without the mask
MaskedAll(events, asked) == events

\* poll: events & (pfd->events | EPOLLHUP | EPOLLERR)
Masked(events, asked) == events \cap (asked \cup {"HUP", "ERR"})

\* revents as the first loop leaves them; the entries after a break are
\* the caller's, taken to be 0
ScanRevents(e, st) ==
    [i \in 1..Len(e) |-> IF i <= Len(st.rev) THEN st.rev[i] ELSE {}]

\* poll's second loop: revents of every entry, given what wait_end reported
PollRevents(e, st, ev) ==
    [i \in 1..Len(e) |->
        IF i <= Len(st.ios) /\ st.ios[i] # NULL
        THEN Masked(ev[i], e[i].events)
        ELSE ScanRevents(e, st)[i]]

\* select's second loop with every bit that was set kept
SelectKeepAll(set, st, ev, class) == set

\* select's second loop on one set: a bit below n whose fd was waited on
\* stays iff wait_end reported the class
SelectKeep(set, st, ev, class) ==
    {fd \in set :
        (fd + 1 <= Len(st.ios) /\ st.ios[fd + 1] # NULL) => class \in ev[fd + 1]}

\* poll's nfds: the waited entries whose revents is not 0
PollCount(st, rev) ==
    Cardinality({i \in 1..Len(rev) : st.ios[i] # NULL /\ rev[i] # {}})

\* what is remembered of a poll or select once it has returned: the
\* arguments, the objects that could not be waited on, the answer of the
\* kernel wait ("none" if none was made) and the events wait_end reported
Waited(op, args, nowait, r, ev) ==
    [op |-> op, a |-> 0, b |-> args,
     s |-> [nowait |-> nowait, r |-> r, ev |-> ev]]

\* the second loop runs after a timeout only if the wait is an error
WaitDoneStrict(r) == r = NO_ERROR

\* if (r == NO_ERROR || r == ERR_TIMED_OUT): the second loop runs
WaitDone(r) == r \in {NO_ERROR, ERR_TIMED_OUT}

\* the entries the first loop goes over
EntriesOf(op, args) ==
    IF op = "poll" THEN args
    ELSE SelEntries(args.n, args.rfds, args.wfds, args.efds)

\* poll / select up to the kernel wait
WaitBegin(t, op, args, nowait) ==
    /\ Unlocked
    /\ Idle(t)
    /\ calls' = calls
    /\ IF op = "poll" /\ Len(args) > MAX_POLL_NFDS
       THEN /\ FinishWith(t, Waited(op, args, nowait, "none", <<>>), ERRNO(EINVAL))
            /\ UNCHANGED <<heap, uaf, out>>
       ELSE IF op = "select" /\ (args.n > FD_SETSIZE \/ args.n < 1)
       THEN /\ FinishWith(t, Waited(op, args, nowait, "none", <<>>), ERRNO(EINVAL))
            /\ UNCHANGED <<heap, uaf, out>>
       ELSE LET e == EntriesOf(op, args)
                st == Scan(op, e, 1, ScanStart, nowait)
                held == AcquireAll(Heap, st.ios)
            IN /\ Touch({st.ios[i] : i \in 1..Len(st.ios)})
               /\ IF st.r = NO_ERROR /\ st.nvalid > 0
                  THEN /\ SetHeap(held)
                       /\ call' = [call EXCEPT ![t] =
                                     [op |-> op, a |-> 0, b |-> args,
                                      s |-> [st |-> st, nowait |-> nowait]]]
                       /\ pc' = [pc EXCEPT ![t] = "wait_many"]
                       /\ UNCHANGED <<io, io_to_close, ret, pre, out>>
                  ELSE /\ \E h \in ReleaseAll({held}, st.ios) : SetHeap(h)
                       /\ FinishWith(t, Waited(op, args, nowait, "none", <<>>),
                                     IF st.r = NO_ERROR THEN Ret(0, NO_ERROR)
                                     ELSE ERROR(st.r))
                       /\ out' = IF op = "poll" THEN ScanRevents(e, st)
                                 ELSE <<args.rfds, args.wfds, args.efds>>
    /\ UNCHANGED <<boot, stream, sync, cwd_dir, mxio_fdtab, oob_write, roots, nobj, installed,
                   threads, pwd, env, top, waited>>

\* mx_object_wait_many has returned r; ev[i] is what wait_end reports for
\* entry i.  The second loop, the releases and the return.
WaitEnd(t, r, ev) ==
    /\ Quiet
    /\ pc[t] = "wait_many"
    /\ LET op == call[t].op
           args == call[t].b
           st == call[t].s.st
           nowait == call[t].s.nowait
           e == EntriesOf(op, args)
           done == WaitDone(r)
           rev == PollRevents(e, st, ev)
           sets == <<SelectKeep(args.rfds, st, ev, "IN"),
                     SelectKeep(args.wfds, st, ev, "OUT"),
                     SelectKeep(args.efds, st, ev, "ERR")>>
           nfds == IF op = "poll" THEN PollCount(st, rev)
                   ELSE Cardinality({fd \in sets[1] : fd < args.n})
                          + Cardinality({fd \in sets[2] : fd < args.n})
                          + Cardinality({fd \in sets[3] : fd < args.n})
       IN /\ Len(ev) = Len(e)
          /\ \A i \in 1..Len(e) :
                (i > Len(st.ios) \/ st.ios[i] = NULL) => ev[i] = {}
          /\ Touch({st.ios[i] : i \in 1..Len(st.ios)})
          /\ \E h \in ReleaseAll({Heap}, st.ios) : SetHeap(h)
          /\ out' = IF op = "poll"
                    THEN (IF done THEN rev ELSE ScanRevents(e, st))
                    ELSE (IF done THEN sets
                          ELSE <<args.rfds, args.wfds, args.efds>>)
          /\ FinishWith(t, Waited(op, args, nowait, r, ev),
                        IF done THEN Ret(nfds, NO_ERROR) ELSE ERROR(r))
    /\ waited' = TRUE
    /\ UNCHANGED <<boot, stream, sync, cwd_dir, mxio_fdtab, oob_write, roots, nobj, installed,
                   threads, calls, pwd, env, top>>

\* -------------------------------------------------------------- futimens
\* mxio_setattr turns every negative answer of the transport into
\* ERR_BAD_HANDLE
SetattrStatus == {NO_ERROR, ERR_BAD_HANDLE}
\* the process is stopped by a fault
FAULT == "FAULT"
\* io->ops->misc with io == NULL: the load faults, or it reads whatever is
\* mapped there and the call through it answers anything
NullDeref == {Ret(0 - 1, FAULT)}
                 \cup {Ret(IF r = NO_ERROR THEN 0 ELSE 0 - 1,
                           IF r = NO_ERROR THEN r ELSE mxio_status_to_errno(r)) :
                          r \in SetattrStatus}

\* futimens(fd, times): fd_to_io(fd), mx_utimens(io, times, 0); the result
\* of the lookup is neither tested nor released.  After the NULL dereference
\* the behaviour is undefined and no further call is followed.
futimens(t, fd) ==
    /\ Unlocked
    /\ Begin(t)
    /\ IF fd_to_io(fd) = NULL
       THEN /\ \E r \in NullDeref : Finish(t, "futimens", r)
            /\ uaf' = TRUE
            /\ UNCHANGED <<heap, top>>
       ELSE /\ Touch({fd_to_io(fd)})
            /\ SetHeap(mxio_acquire(Heap, fd_to_io(fd)))
            /\ top' = TRUE
            /\ \E r \in SetattrStatus :
                  Finish(t, "futimens",
                         Ret(IF r = NO_ERROR THEN 0 ELSE 0 - 1,
                             IF r = NO_ERROR THEN r
                             ELSE mxio_status_to_errno(r)))
    /\ UNCHANGED <<boot, stream, sync, cwd_dir, mxio_fdtab, oob_write, roots, nobj, installed,
                   threads, pwd, env, waited, out>>

\* ------------------------------------------------------ mxio_install_root
\* mxio_install_root(root) with an object the caller has just made
mxio_install_root(t) ==
    /\ Unlocked
    /\ Begin(t)
    /\ nobj < MaxObj
    /\ LET root == nobj + 1
       IN /\ nobj' = root
          /\ SetHeap(mxio_create(Heap, root))
          /\ IF mxio_root_init
             THEN /\ mxio_root_handle' = root
                  /\ mxio_root_init' = FALSE
             ELSE UNCHANGED <<mxio_root_handle, mxio_root_init>>
    /\ Finish(t, "install_root", Ret(0, NO_ERROR))
    /\ UNCHANGED <<boot, stream, sync, cwd_dir, mxio_fdtab, oob_write, uaf, mxio_cwd_handle,
                   installed, threads, pwd, env, hist>>

\* ---------------------------------------------------------- chdir, getcwd
\* chdir(path): __mxio_open through the cwd handle, then the sections under
\* mxio_cwd_lock and mxio_lock, which no other call of the thread can enter
chdir(t, path) ==
    /\ Unlocked
    /\ mxio_cwd_lock = NoThread
    /\ Begin(t)
    /\ nobj < MaxObj
    /\ IF path = <<>>
       THEN /\ Finish(t, "chdir", Ret(0 - 1, mxio_status_to_errno(ERR_INVALID_ARGS)))
            /\ UNCHANGED <<uaf, roots, nobj, heap, mxio_cwd_path, top,
                           cwd_dir>>
       ELSE \E r \in OpenStatus :
              /\ top' = TRUE
              /\ IF r # NO_ERROR
                 THEN /\ Finish(t, "chdir", Ret(0 - 1, mxio_status_to_errno(r)))
                      /\ Touch({mxio_cwd_handle})
                      /\ UNCHANGED <<roots, nobj, heap, mxio_cwd_path,
                                     cwd_dir>>
                 ELSE LET o == nobj + 1
                          old == mxio_cwd_handle
                      IN /\ nobj' = o
                         /\ mxio_cwd_path' = update_cwd_path(mxio_cwd_path, path)
                         /\ mxio_cwd_handle' = o
                         /\ cwd_dir' = [cwd_dir EXCEPT !["cwd"] =
                                                        Resolve(@, path)]
                         /\ Touch({old})
                         /\ \E h \in mxio_release(
                                    ops_close(mxio_create(Heap, o), old), old) :
                                SetHeap(h)
                         /\ Finish(t, "chdir", Ret(0, NO_ERROR))
                         /\ UNCHANGED <<mxio_root_handle, mxio_root_init>>
    /\ UNCHANGED <<boot, stream, sync, mxio_fdtab, oob_write, installed, threads, pwd,
                   flags, avail, room, waited, out>>

\* chdir as its threads run it.  call[t].b is the index in ChdirPaths of
\* the path of the call in progress.
ChdirPaths == << <<"a">>, <<"/", "a">>, <<".", ".">> >>
\* the order in which chdir takes its two mutexes
ChdirOrderTableFirst == <<"table", "cwd">>
ChdirOrder == <<"cwd", "table">>

\* mxio_iodir: the section under mxio_lock that picks and acquires the
\* root or the cwd object
chdir_iodir(t, k) ==
    /\ Unlocked
    /\ Begin(t)
    /\ LET path == ChdirPaths[k]
           iodir == IF path[1] = "/" THEN mxio_root_handle
                    ELSE mxio_cwd_handle
       IN /\ Touch({iodir})
          /\ SetHeap(mxio_acquire(Heap, iodir))
          /\ Enter(t, "chdir", 0, k, 0, NoPre)
          /\ cwd_dir' = [cwd_dir EXCEPT ![t] = IF path[1] = "/" THEN Root
                                               ELSE cwd_dir["cwd"]]
          /\ io' = [io EXCEPT ![t] = iodir]
          /\ pc' = [pc EXCEPT ![t] = "chdir_open"]
          /\ UNCHANGED <<ret, io_to_close>>
    /\ UNCHANGED <<boot, stream, sync, mxio_fdtab, oob_write, roots, nobj,
                   installed, threads, pwd, env, hist>>

\* iodir->ops->open and mxio_release(iodir), with no mutex held
chdir_open(t) ==
    /\ Quiet
    /\ pc[t] = "chdir_open"
    /\ nobj < MaxObj
    /\ Touch({io[t]})
    /\ top' = TRUE
    /\ \E r \in OpenStatus :
          IF r # NO_ERROR
          THEN /\ \E h \in mxio_release(Heap, io[t]) : SetHeap(h)
               /\ Finish(t, "chdir", ERROR(r))
               /\ UNCHANGED <<nobj, cwd_dir>>
          ELSE /\ \E h \in mxio_release(mxio_create(Heap, nobj + 1), io[t]) :
                     SetHeap(h)
               /\ nobj' = nobj + 1
               /\ io' = [io EXCEPT ![t] = nobj + 1]
               /\ cwd_dir' = [cwd_dir EXCEPT ![t] =
                                   Resolve(@, ChdirPaths[call[t].b])]
               /\ pc' = [pc EXCEPT ![t] = "chdir_lock1"]
               /\ UNCHANGED <<ret, io_to_close, pre, call>>
    /\ UNCHANGED <<boot, stream, sync, mxio_fdtab, oob_write, roots,
                   installed, threads, calls, pwd, env, waited, out>>

\* the k-th mtx_lock of chdir; update_cwd_path runs as soon as the cwd
\* mutex is held
chdir_lock(t, k) ==
    /\ Quiet
    /\ pc[t] = IF k = 1 THEN "chdir_lock1" ELSE "chdir_lock2"
    /\ IF ChdirOrder[k] = "cwd"
       THEN /\ mxio_cwd_lock = NoThread
            /\ mxio_cwd_lock' = t
            /\ mxio_cwd_path' = update_cwd_path(mxio_cwd_path,
                                                ChdirPaths[call[t].b])
            /\ UNCHANGED mxio_lock
       ELSE /\ Unlocked
            /\ mxio_lock' = t
            /\ UNCHANGED <<mxio_cwd_lock, mxio_cwd_path>>
    /\ pc' = [pc EXCEPT ![t] = IF k = 1 THEN "chdir_lock2" ELSE "chdir_swap"]
    /\ UNCHANGED <<boot, stream, mxio_umask, cwd_dir, mxio_fdtab, oob_write, uaf,
                   roots, nobj, heap, installed, threads, calls, call, io,
                   io_to_close, ret, pre, pwd, flags, avail, room, hist>>

\* with both mutexes held: the new cwd object goes in, the old one is
\* closed and released, the mutexes are unlocked
chdir_swap(t) ==
    /\ Quiet
    /\ pc[t] = "chdir_swap"
    /\ LET old == mxio_cwd_handle
       IN /\ mxio_cwd_handle' = io[t]
          /\ cwd_dir' = [cwd_dir EXCEPT !["cwd"] = cwd_dir[t]]
          /\ Touch({old})
          /\ \E h \in mxio_release(ops_close(Heap, old), old) : SetHeap(h)
    /\ mxio_lock' = NoThread
    /\ mxio_cwd_lock' = NoThread
    /\ Finish(t, "chdir", Ret(0, NO_ERROR))
    /\ UNCHANGED <<boot, stream, mxio_umask, mxio_fdtab, oob_write, mxio_root_handle,
                   mxio_root_init, nobj, installed, threads, calls, pwd, env,
                   hist>>

\* ------------------------------------------------------- umask, mxio_exit
Masks == {0, 18}

umask(t, mask) ==
    /\ Unlocked
    /\ Idle(t)
    /\ calls' = calls
    /\ mxio_umask' = mask
    /\ Finish(t, "umask", Ret(mxio_umask, NO_ERROR))
    /\ UNCHANGED <<boot, stream, mxio_lock, mxio_cwd_lock, cwd_dir, mxio_fdtab,
                   oob_write, uaf, roots, nobj, heap, installed, threads, pwd,
                   env, hist>>

\* the loop of mxio_exit from slot fd on: the tables and heaps it can end in
RECURSIVE ExitLoop(_, _, _)
ExitLoop(fd, tab, hs) ==
    IF fd >= MAX_MXIO_FD THEN {[tab |-> tab, h |-> h] : h \in hs}
    ELSE LET o == tab[fd]
         IN IF o = NULL THEN ExitLoop(fd + 1, tab, hs)
            ELSE ExitLoop(fd + 1, [tab EXCEPT ![fd] = NULL],
                     UNION {IF h.dupcount[o] - 1 = 0
                            THEN mxio_release(
                                     ops_close([h EXCEPT !.dupcount[o] = 0],
                                               o), o)
                            ELSE {[h EXCEPT !.dupcount[o] = @ - 1]} :
                            h \in hs})

\* the process exits: the atexit hook mxio_exit takes mxio_lock
exit_lock(t) ==
    /\ Unlocked
    /\ Idle(t)
    /\ mxio_lock' = t
    /\ phase' = "exit"
    /\ call' = [call EXCEPT ![t] = [NoCall EXCEPT !.op = "exit"]]
    /\ pc' = [pc EXCEPT ![t] = "exit_loop"]
    /\ UNCHANGED <<handle_info, n, stdio_fd, root_given, mxio_cwd_lock,
                   mxio_umask, cwd_dir, stream, mxio_fdtab, oob_write, uaf, roots, nobj, heap,
                   installed, threads, calls, io, io_to_close, ret, pre, pwd,
                   env, hist>>

\* the loop of mxio_exit over the table, and the unlock
exit_loop(t) ==
    /\ Quiet
    /\ pc[t] = "exit_loop"
    /\ Touch({mxio_fdtab[fd] : fd \in Fds})
    /\ \E x \in ExitLoop(0, mxio_fdtab, {Heap}) :
          /\ mxio_fdtab' = x.tab
          /\ SetHeap(x.h)
    /\ mxio_lock' = NoThread
    /\ Finish(t, "exit", Ret(0, NO_ERROR))
    /\ UNCHANGED <<boot, stream, mxio_cwd_lock, mxio_umask, cwd_dir, oob_write,
                   roots, nobj, installed, threads, calls, pwd, env, hist>>

\* buffer sizes passed to getcwd; a NULL buf makes the size PATH_MAX
GetcwdSizes == {0, 2, PATH_MAX - 2, PATH_MAX}

getcwd(t, buf, size) ==
    /\ Idle(t)
    /\ mxio_cwd_lock = NoThread
    /\ LET sz == IF buf = NULL THEN PATH_MAX ELSE size
           len == Len(mxio_cwd_path) + 1
       IN IF buf # NULL /\ size = 0
          THEN /\ Finish(t, "getcwd", Ret(NULL, EINVAL))
               /\ out' = NoOut
          ELSE IF len < sz
          THEN /\ Finish(t, "getcwd", Ret(1, NO_ERROR))
               /\ out' = Str(mxio_cwd_path)
          ELSE /\ Finish(t, "getcwd", Ret(NULL, ERANGE))
               /\ out' = NoOut
    /\ UNCHANGED <<boot, stream, sync, cwd_dir, mxio_fdtab, oob_write, uaf, roots, nobj, heap,
                   installed, threads, calls, pwd, env, top, waited>>

\* ------------------------------------------------------------------ Next
Startup ==
    \/ InitHandle
    \/ InitStdio
    \/ InitRoots

\* the calls that threads make concurrently
Next ==
    \/ Startup
    \/ \E t \in Threads : ReturnToCaller(t)
    \/ \E t \in Threads, fd \in OldFds : Lookup(t, fd)
    \/ \E t \in Threads : ReleaseHeld(t)
    \/ \E t \in Threads, fd \in FdArgs : CloseLocked(t, fd)
    \/ \E t \in Threads : CloseTail(t)
    \/ \E t \in Threads, oldfd \in OldFds : DupLookup(t, "dup", oldfd, 0 - 1, 0)
    \/ \E t \in Threads, oldfd \in OldFds, newfd \in FdArgs :
              DupLookup(t, "dup2", oldfd, newfd, 0)
    \/ \E t \in Threads : DupBind(t)
    \/ \E t \in Threads : BindNew(t, "handle_fd", 0 - 1, 0)
    \/ \E t \in Threads : BindTail(t)
    \/ \E t \in Threads, fd \in OldFds : mxio_unbind_from_fd(t, fd)

Spec == Init /\ [][Next]_vars

\* the calls of one thread, each run to completion before the next
InitSeq == InitState(RunBundles, MainThread)

NextSeq ==
    \/ Next
    \/ \E t \in Threads, oldfd \in OldFds, newfd \in FdArgs :
              DupLookup(t, "dup3", oldfd, newfd, 0)
    \/ \E t \in Threads, oldfd \in OldFds, starting_fd \in StartArgs :
              DupLookup(t, "fcntl", oldfd, 0 - 1, starting_fd)
    \/ \E t \in Threads, oldfd \in OldFds :
              DupLookup(t, "close_dup", oldfd, 0 - 1, 0)
    \/ \E t \in Threads : ChainClose(t)
    \/ \E t \in Threads, fd \in OldFds : futimens(t, fd)
    \/ \E t \in Threads, op \in {"open", "openat"}, path \in OpenPaths,
          fl \in OpenFlags : vopenat(t, op, path, fl)
    \/ \E t \in Threads, flags_allowed \in BOOLEAN : pipe2(t, flags_allowed)
    \/ \E t \in Threads : mxio_install_root(t)

SpecSeq == InitSeq /\ [][NextSeq]_vars

\* __libc_extensions_init alone, over every bundle
InitBoot == InitState(Bundles, {})

SpecBoot == InitBoot /\ [][Startup]_vars

\* startup with any PWD, then chdir and getcwd by one thread; the paths
\* passed to chdir include the string getcwd hands back
CwdBundle == <<[type |-> "CWD", arg |-> 0, stdio |-> FALSE]>>

InitCwd == InitEnv({CwdBundle}, MainThread, Paths \cup {NoPwd, LongPwd})

NextCwd ==
    \/ Startup
    \/ \E t \in Threads : ReturnToCaller(t)
    \/ \E t \in Threads, path \in Paths \cup {mxio_cwd_path} : chdir(t, path)
    \/ \E t \in Threads, buf \in {NULL, 1}, size \in GetcwdSizes :
              getcwd(t, buf, size)

SpecCwd == InitCwd /\ [][NextCwd]_vars

\* ------------------------------------------------- mxio_iodir, fstatat
\* dirfd of "relative to the cwd"
AT_FDCWD == 0 - 100
\* path == NULL
NullPath == <<"NULL">>
\* what mxio_stat answers
StatStatus == {NO_ERROR, ERR_BAD_HANDLE, ERR_IO}

\* mxio_iodir with dirfd looked at before the leading '/'
mxio_iodir_dirfd_first(path, dirfd) ==
    IF dirfd = AT_FDCWD THEN [iodir |-> mxio_cwd_handle, path |-> path]
    ELSE IF dirfd >= 0 /\ dirfd < MAX_MXIO_FD
    THEN [iodir |-> mxio_fdtab[dirfd], path |-> path]
    ELSE IF path # <<>> /\ path[1] = "/"
    THEN [iodir |-> mxio_root_handle,
          path |-> IF Tail(path) = <<>> THEN <<".">> ELSE Tail(path)]
    ELSE [iodir |-> NULL, path |-> path]

\* mxio_iodir(&path, dirfd): the object it picks (before the acquire) and
\* the path it leaves in *path
mxio_iodir(path, dirfd) ==
    IF path # <<>> /\ path[1] = "/"
    THEN [iodir |-> mxio_root_handle,
          path |-> IF Tail(path) = <<>> THEN <<".">> ELSE Tail(path)]
    ELSE IF dirfd = AT_FDCWD THEN [iodir |-> mxio_cwd_handle, path |-> path]
    ELSE IF dirfd >= 0 /\ dirfd < MAX_MXIO_FD
    THEN [iodir |-> mxio_fdtab[dirfd], path |-> path]
    ELSE [iodir |-> NULL, path |-> path]

\* what is remembered of a call that took (dirfd, path): the arguments, the
\* object the path was routed to and the path the transport was given
Routed(op, dirfd, path, iodir, rest) ==
    [op |-> op, a |-> 0, b |-> dirfd,
     s |-> [path |-> path, iodir |-> iodir, rest |-> rest]]

\* fstatat(dirfd, fn, s, 0) up to the end of mxio_iodir: the tests of
\* __mxio_open_at on the path, the section under mxio_lock
fstatat_iodir(t, dirfd, path) ==
    /\ Unlocked
    /\ Begin(t)
    /\ IF path = NullPath \/ path = <<>>
       THEN /\ FinishWith(t, Routed("fstatat", dirfd, path, NULL, <<>>),
                          ERROR(ERR_INVALID_ARGS))
            /\ UNCHANGED <<heap, uaf>>
       ELSE LET d == mxio_iodir(path, dirfd)
            IN IF d.iodir = NULL
               THEN /\ FinishWith(t, Routed("fstatat", dirfd, path, NULL, <<>>),
                                  ERROR(ERR_BAD_HANDLE))
                    /\ UNCHANGED <<heap, uaf>>
               ELSE /\ Touch({d.iodir})
                    /\ SetHeap(mxio_acquire(Heap, d.iodir))
                    /\ call' = [call EXCEPT ![t] =
                                  Routed("fstatat", dirfd, path, d.iodir, d.path)]
                    /\ pre' = [pre EXCEPT ![t] =
                                 [NoPre EXCEPT !.io = d.iodir,
                                               !.refcount = refcount[d.iodir]]]
                    /\ io' = [io EXCEPT ![t] = d.iodir]
                    /\ pc' = [pc EXCEPT ![t] = "fstatat_open"]
                    /\ UNCHANGED <<ret, io_to_close>>
    /\ UNCHANGED <<boot, stream, sync, cwd_dir, mxio_fdtab, oob_write, roots, nobj,
                   installed, threads, pwd, env, hist>>

\* iodir->ops->open, mxio_release(iodir); then mxio_stat on the object
\* opened, mxio_close and mxio_release of it
fstatat_open(t) ==
    /\ Quiet
    /\ pc[t] = "fstatat_open"
    /\ nobj < MaxObj
    /\ Touch({io[t]})
    /\ top' = TRUE
    /\ \E r \in OpenStatus :
          IF r # NO_ERROR
          THEN /\ \E h \in mxio_release(Heap, io[t]) : SetHeap(h)
               /\ FinishWith(t, call[t], ERROR(r))
               /\ UNCHANGED nobj
          ELSE /\ \E h \in CloseRelease(
                              mxio_release(mxio_create(Heap, nobj + 1), io[t]),
                              nobj + 1) : SetHeap(h)
               /\ nobj' = nobj + 1
               /\ \E q \in StatStatus :
                     FinishWith(t, call[t],
                                IF q = NO_ERROR THEN Ret(0, NO_ERROR)
                                ELSE ERROR(q))
    /\ UNCHANGED <<boot, stream, sync, cwd_dir, mxio_fdtab, oob_write, roots,
                   installed, threads, calls, pwd, env, waited, out>>

\* ------------------------------------------------ unlinkat, rename, link
\* A read outside the string a path points at (strlen of a null pointer,
\* path[-1]): the process is stopped, or the call goes on with what it
\* read and its answer is not determined by the program
OutsideRead == {Ret(0 - 1, FAULT), Ret(0 - 1, EINVAL), Ret(0, NO_ERROR)}
\* what the transport answers to MXRIO_UNLINK, MXRIO_RENAME, MXRIO_LINK
MiscStatus == {NO_ERROR, ERR_NOT_FOUND}

\* what is remembered of a call that took paths: the paths, and whether it
\* read outside one of them
Named(op, dirfd, paths, outside) ==
    [op |-> op, a |-> 0, b |-> dirfd,
     s |-> [paths |-> paths, outside |-> outside]]

\* unlinkat(dirfd, path, 0), run by a thread that no other call interleaves
\* with.  __mxio_opendir_containing_at tests path for NULL only; with ""
\* strnlen(path) - 1 wraps and path[path_end] is read before the string.
\* The paths passed here have no '/' after mxio_iodir, so dirpath is "."
\* and name the path.
unlinkat(t, dirfd, path) ==
    /\ Unlocked
    /\ Begin(t)
    /\ nobj < MaxObj
    /\ IF path = NullPath
       THEN /\ FinishWith(t, Named("unlinkat", dirfd, <<path>>, FALSE),
                          ERROR(ERR_INVALID_ARGS))
            /\ UNCHANGED <<heap, uaf, nobj, top>>
       ELSE LET d == mxio_iodir(path, dirfd)
            IN IF d.iodir = NULL
               THEN /\ FinishWith(t, Named("unlinkat", dirfd, <<path>>, FALSE),
                                  ERROR(ERR_BAD_HANDLE))
                    /\ UNCHANGED <<heap, uaf, nobj, top>>
               ELSE IF d.path = <<>>
               THEN /\ \E r \in OutsideRead :
                         FinishWith(t, Named("unlinkat", dirfd, <<path>>, TRUE), r)
                    /\ SetHeap(mxio_acquire(Heap, d.iodir))
                    /\ uaf' = TRUE
                    /\ UNCHANGED <<nobj, top>>
               ELSE /\ Touch({d.iodir})
                    /\ top' = TRUE
                    /\ \E r \in OpenStatus :
                         IF r # NO_ERROR
                         THEN /\ FinishWith(t, Named("unlinkat", dirfd, <<path>>,
                                                     FALSE), ERROR(r))
                              /\ UNCHANGED <<heap, nobj>>
                         ELSE /\ \E h \in CloseRelease(
                                            {mxio_create(Heap, nobj + 1)},
                                            nobj + 1) : SetHeap(h)
                              /\ nobj' = nobj + 1
                              /\ \E q \in MiscStatus :
                                    FinishWith(t, Named("unlinkat", dirfd,
                                                        <<path>>, FALSE),
                                               IF q = NO_ERROR
                                               THEN Ret(0, NO_ERROR)
                                               ELSE ERROR(q))
    /\ UNCHANGED <<boot, stream, sync, cwd_dir, mxio_fdtab, oob_write, roots,
                   installed, threads, pwd, env, waited, out>>

\* two_path_op(op, oldpath, newpath) of rename and link, run by a thread
\* that no other call interleaves with.  Neither path is tested for NULL
\* before strlen, and "" counts as a relative path.  The paths passed here
\* are far shorter than MXIO_CHUNK_SIZE.
two_path_op(t, op, oldpath, newpath) ==
    /\ Unlocked
    /\ Begin(t)
    /\ IF oldpath = NullPath \/ newpath = NullPath
       THEN /\ \E r \in OutsideRead :
                 FinishWith(t, Named(op, 0, <<oldpath, newpath>>, TRUE), r)
            /\ uaf' = TRUE
            /\ UNCHANGED <<heap, top>>
       ELSE LET abs1 == oldpath # <<>> /\ oldpath[1] = "/"
                abs2 == newpath # <<>> /\ newpath[1] = "/"
                base == IF abs1 THEN mxio_root_handle ELSE mxio_cwd_handle
            IN IF abs1 # abs2
               THEN /\ FinishWith(t, Named(op, 0, <<oldpath, newpath>>, FALSE),
                                  ERROR(ERR_NOT_SUPPORTED))
                    /\ UNCHANGED <<heap, uaf, top>>
               ELSE /\ Touch({base})
                    /\ \E h \in mxio_release(mxio_acquire(Heap, base), base) :
                          SetHeap(h)
                    /\ top' = TRUE
                    /\ \E r \in MiscStatus :
                          FinishWith(t, Named(op, 0, <<oldpath, newpath>>, FALSE),
                                     IF r = NO_ERROR THEN Ret(0, NO_ERROR)
                                     ELSE ERROR(r))
    /\ UNCHANGED <<boot, stream, sync, cwd_dir, mxio_fdtab, oob_write, roots, nobj,
                   installed, threads, pwd, env, waited, out>>

\* two threads: chdir step by step, getcwd, umask, close, dup, and the exit
\* of the process
InitChdir == InitEnv({CwdBundle}, Threads, {NoPwd})

NextChdir ==
    \/ Startup
    \/ \E t \in Threads : ReturnToCaller(t)
    \/ \E t \in Threads, k \in DOMAIN ChdirPaths : chdir_iodir(t, k)
    \/ \E t \in Threads : chdir_open(t)
    \/ \E t \in Threads, k \in 1..2 : chdir_lock(t, k)
    \/ \E t \in Threads : chdir_swap(t)
    \/ \E t \in Threads : getcwd(t, 1, PATH_MAX)
    \/ \E t \in Threads, mask \in Masks : umask(t, mask)
    \/ \E t \in Threads, fd \in FdArgs : CloseLocked(t, fd)
    \/ \E t \in Threads : CloseTail(t)
    \/ \E t \in Threads, oldfd \in OldFds : DupLookup(t, "dup", oldfd, 0 - 1, 0)
    \/ \E t \in Threads : DupBind(t)
    \/ \E t \in Threads : BindTail(t)
    \/ \E t \in Threads, path \in OpenPaths, fl \in OpenFlags :
          vopenat(t, "open", path, fl)
    \/ \E t \in Threads : exit_lock(t)
    \/ \E t \in Threads : exit_loop(t)

SpecChdir == InitChdir /\ [][NextChdir]_vars

\* every thread gets to run, and a thread that waits for a mutex gets it
\* when it is unlocked again and again
LockedStep(t) ==
    \/ ReturnToCaller(t)
    \/ \E k \in 1..2 : chdir_lock(t, k)
    \/ chdir_swap(t)
    \/ exit_loop(t)

FairChdir == \A t \in Threads : SF_vars(LockedStep(t))

SpecChdirFair == SpecChdir /\ FairChdir

\* startup, then calls that take a path, by one thread
DirFds == {AT_FDCWD, 0 - 1, 0, MAX_MXIO_FD - 1, MAX_MXIO_FD}
RoutePaths == {NullPath, <<>>, <<"/">>, <<"/", "a">>, <<"a">>}

InitPath == InitState(RunBundles, MainThread)

NextPath ==
    \/ Startup
    \/ \E t \in Threads : ReturnToCaller(t)
    \/ \E t \in Threads, dirfd \in DirFds, path \in RoutePaths :
          fstatat_iodir(t, dirfd, path)
    \/ \E t \in Threads : fstatat_open(t)
    \/ \E t \in Threads, dirfd \in DirFds, path \in RoutePaths :
          unlinkat(t, dirfd, path)
    \/ \E t \in Threads, op \in {"rename", "link"},
          oldpath \in RoutePaths, newpath \in RoutePaths :
             two_path_op(t, op, oldpath, newpath)

SpecPath == InitPath /\ [][NextPath]_vars

\* ------------------------------------------------------ directory streams
\* One DIR at a time; a call that returns a DIR* or a dirent* has 1 as
\* its result for the pointer and NULL for NULL.  Sizes are counted in units of sizeof(vdirent_t);
\* dir.ptr is NULL or the number of the record in dir.data it points at,
\* dir.data the records of the last batch that was stored, what an older
\* and longer batch left behind them included.  A record carries the
\* number of rewinddir calls made when it was fetched.
READDIR_CMD_NONE == "NONE"
READDIR_CMD_RESET == "RESET"
\* sizeof(vdirent_t): the size and type fields in front of the name
VDIRENT_HDR == 1
\* a record: the header and a short name
RecSize == VDIRENT_HDR + 1
DIR_BUFSIZE == 4
\* the entries of every directory, in the order the remote lists them
DirNames == <<"a", "b", "c">>
MaxRewinds == 1
\* how opendir and fdopendir are called
DirOpenPaths == {NullPath, <<>>, <<"a">>}
DirOpenFds == {0 - 1, 0, MAX_MXIO_FD}
\* calloc(1, sizeof(*dir)) returns memory or NULL
CallocOk == BOOLEAN

\* cmd = NONE whatever dir->ptr is
ReaddirCmdNone(ptr) == READDIR_CMD_NONE

\* (dir->ptr == NULL) ? READDIR_CMD_RESET : READDIR_CMD_NONE
ReaddirCmd(ptr) ==
    IF ptr = NULL THEN READDIR_CMD_RESET ELSE READDIR_CMD_NONE

\* internal_opendir(fd) when calloc succeeds
internal_opendir(fd) == [NoDir EXCEPT !.open = TRUE, !.fd = fd]

\* What the remote answers to misc(READDIR, cmd, len) when it stands at
\* pos: an error, or one or more of the whole records from its position on
\* that fit into len bytes, 0 bytes at the end; RESET takes it to the start
\* first.
ReaddirReply(pos, cmd, len) ==
    LET from == IF cmd = READDIR_CMD_RESET THEN 0 ELSE pos
        left == Len(DirNames) - from
        fit == len \div RecSize
        most == IF left < fit THEN left ELSE fit
    IN {[r |-> ERROR(ERR_IO), pos |-> pos, names |-> <<>>]}
       \cup {[r |-> Ret(k * RecSize, NO_ERROR), pos |-> from + k,
              names |-> SubSeq(DirNames, from + 1, from + k)] :
                k \in (IF most = 0 THEN {0} ELSE 1..most)}

\* the buffer after a batch has been copied to its start
Stored(data, names, gen) ==
    [i \in 1..Len(names) |->
        [name |-> names[i], size |-> RecSize, gen |-> gen]]
      \o SubSeq(data, Len(names) + 1, Len(data))

\* fdopendir(fd)
fdopendir(t, fd) ==
    /\ Idle(t)
    /\ ~dir.open
    /\ LET o == fd_to_io(fd)
       IN IF o = NULL
          THEN /\ Finish(t, "fdopendir", Ret(NULL, EBADF))
               /\ UNCHANGED <<dir, fetched, heap>>
          ELSE /\ \E h \in mxio_release(mxio_acquire(Heap, o), o) : SetHeap(h)
               /\ \E ok \in CallocOk :
                    IF ok
                    THEN /\ dir' = internal_opendir(fd)
                         /\ fetched' = NoFetch
                         /\ Finish(t, "fdopendir", Ret(1, NO_ERROR))
                    ELSE /\ Finish(t, "fdopendir", Ret(NULL, ENOMEM))
                         /\ UNCHANGED <<dir, fetched>>
    /\ UNCHANGED <<boot, sync, cwd_dir, mxio_fdtab, oob_write, uaf, roots, nobj,
                   installed, threads, calls, pwd, env, hist, dirpos, dirent,
                   rewinds>>

\* opendir(name): open(name, O_DIRECTORY), internal_opendir(fd), and
\* close(fd) when calloc failed.  The new object is a directory that the
\* remote has not listed yet.
opendir(t, name) ==
    /\ Unlocked
    /\ Begin(t)
    /\ ~dir.open
    /\ nobj < MaxObj
    /\ IF name \in {NullPath, <<>>}
       THEN /\ Finish(t, "opendir", Ret(NULL, EINVAL))
            /\ UNCHANGED <<mxio_fdtab, nobj, heap, installed, dir, fetched,
                           top>>
       ELSE \E r \in OpenStatus :
              /\ top' = TRUE
              /\ IF r # NO_ERROR
                 THEN /\ Finish(t, "opendir", Ret(NULL, mxio_status_to_errno(r)))
                      /\ UNCHANGED <<mxio_fdtab, nobj, heap, installed, dir,
                                     fetched>>
                 ELSE LET o == nobj + 1
                      IN /\ nobj' = o
                         /\ \E b \in mxio_bind_to_fd(mxio_fdtab,
                                        mxio_create(Heap, o), o, 0 - 1, 0) :
                              IF b.r.v < 0
                              THEN /\ \E h \in CloseRelease({b.h}, o) :
                                         SetHeap(h)
                                   /\ Finish(t, "opendir", Ret(NULL, EMFILE))
                                   /\ UNCHANGED <<mxio_fdtab, installed, dir,
                                                  fetched>>
                              ELSE
                                /\ installed' = [installed EXCEPT ![o] = TRUE]
                                /\ \E ok \in CallocOk :
                                     IF ok
                                     THEN /\ mxio_fdtab' = b.tab
                                          /\ SetHeap(b.h)
                                          /\ dir' = internal_opendir(b.r.v)
                                          /\ fetched' = NoFetch
                                          /\ Finish(t, "opendir",
                                                    Ret(1, NO_ERROR))
                                     ELSE LET c == CloseNow(b.tab, b.h, b.r.v)
                                          IN /\ mxio_fdtab' = c.tab
                                             /\ \E h \in c.hs : SetHeap(h)
                                             /\ Finish(t, "opendir",
                                                       Ret(NULL, ENOMEM))
                                             /\ UNCHANGED <<dir, fetched>>
    /\ UNCHANGED <<boot, sync, cwd_dir, oob_write, uaf, roots, threads, pwd,
                   env, waited, out, dirpos, dirent, rewinds>>

\* closedir(dir): close(dir->fd), whatever it returns, and free(dir)
closedir(t) ==
    /\ Unlocked
    /\ Begin(t)
    /\ dir.open
    /\ dir.lock = NoThread
    /\ IF fd_to_io(dir.fd) = NULL
       THEN UNCHANGED <<mxio_fdtab, heap>>
       ELSE LET c == CloseNow(mxio_fdtab, Heap, dir.fd)
            IN /\ mxio_fdtab' = c.tab
               /\ \E h \in c.hs : SetHeap(h)
    /\ dir' = NoDir
    /\ Finish(t, "closedir", Ret(0, NO_ERROR))
    /\ UNCHANGED <<boot, sync, cwd_dir, oob_write, uaf, roots, nobj, installed,
                   threads, pwd, env, hist, dirpos, dirent, fetched, rewinds>>

\* rewinddir(dir), all of it under dir->lock
rewinddir(t) ==
    /\ Idle(t)
    /\ dir.open
    /\ dir.lock = NoThread
    /\ rewinds < MaxRewinds
    /\ dir' = [dir EXCEPT !.size = 0, !.ptr = NULL]
    /\ rewinds' = rewinds + 1
    /\ fetched' = NoFetch
    /\ Finish(t, "rewinddir", Ret(0, NO_ERROR))
    /\ UNCHANGED <<boot, sync, cwd_dir, mxio_fdtab, oob_write, uaf, roots, nobj,
                   heap, installed, threads, calls, pwd, env, hist, dirpos,
                   dirent>>

\* readdir(dir): mtx_lock(&dir->lock)
readdir(t) ==
    /\ Idle(t)
    /\ dir.open
    /\ dir.lock = NoThread
    /\ dir' = [dir EXCEPT !.lock = t]
    /\ pc' = [pc EXCEPT ![t] = "readdir"]
    /\ call' = [call EXCEPT ![t] = [NoCall EXCEPT !.op = "readdir"]]
    /\ UNCHANGED <<boot, sync, cwd_dir, mxio_fdtab, oob_write, uaf, roots, nobj,
                   heap, installed, threads, calls, io, io_to_close, ret, pre,
                   pwd, env, hist, dirpos, dirent, fetched, rewinds>>

\* One turn of the for (;;) of readdir: a whole record in the cache is
\* handed out; otherwise getdirents asks for a batch, a batch that came is
\* stored and the loop goes round, and readdir returns NULL when none came.
\* getdirents takes and drops a reference, and asks nothing when the fd is
\* not bound.
readdir_loop(t) ==
    /\ pc[t] = "readdir"
    /\ IF dir.size >= VDIRENT_HDR /\ dir.size >= dir.data[dir.ptr].size
       THEN LET vde == dir.data[dir.ptr]
            IN /\ dirent' = [name |-> vde.name, gen |-> vde.gen]
               /\ dir' = [dir EXCEPT !.ptr = @ + 1, !.size = @ - vde.size,
                                     !.lock = NoThread]
               /\ Finish(t, "readdir", Ret(1, NO_ERROR))
               /\ UNCHANGED <<dirpos, fetched, heap>>
       ELSE LET size == IF dir.size >= VDIRENT_HDR THEN 0 ELSE dir.size
                cmd == ReaddirCmd(dir.ptr)
                o == fd_to_io(dir.fd)
            IN IF o = NULL
               THEN /\ dirent' = NoEntry
                    /\ dir' = [dir EXCEPT !.size = size, !.lock = NoThread]
                    /\ Finish(t, "readdir", Ret(NULL, EBADF))
                    /\ UNCHANGED <<dirpos, fetched, heap>>
               ELSE
                 /\ \E h \in mxio_release(mxio_acquire(Heap, o), o) :
                       SetHeap(h)
                 /\ \E reply \in ReaddirReply(dirpos[o], cmd, DIR_BUFSIZE) :
                      /\ dirpos' = [dirpos EXCEPT ![o] = reply.pos]
                      /\ fetched' = [since |-> Sat2(fetched.since + 1),
                                     cmd |-> cmd,
                                     got |-> fetched.got \/ reply.r.v > 0,
                                     tick |-> ~fetched.tick]
                      /\ IF reply.r.v > 0
                         THEN /\ dir' = [dir EXCEPT
                                   !.ptr = 1, !.size = reply.r.v,
                                   !.data = Stored(@, reply.names, rewinds)]
                              /\ UNCHANGED <<locals, dirent>>
                         ELSE /\ dirent' = NoEntry
                              /\ dir' = [dir EXCEPT !.size = size,
                                                    !.lock = NoThread]
                              /\ Finish(t, "readdir", Ret(NULL, reply.r.err))
    /\ UNCHANGED <<boot, sync, cwd_dir, mxio_fdtab, oob_write, uaf, roots, nobj,
                   installed, threads, calls, pwd, env, hist, rewinds>>

\* one thread opens, reads, rewinds and closes a directory stream
InitDir == InitEnv({CwdBundle}, MainThread, {NoPwd})

NextDir ==
    \/ Startup
    \/ \E t \in Threads : ReturnToCaller(t)
    \/ \E t \in Threads, name \in DirOpenPaths : opendir(t, name)
    \/ \E t \in Threads, fd \in DirOpenFds : fdopendir(t, fd)
    \/ \E t \in Threads : readdir(t)
    \/ \E t \in Threads : readdir_loop(t)
    \/ \E t \in Threads : rewinddir(t)
    \/ \E t \in Threads : closedir(t)

SpecDir == InitDir /\ [][NextDir]_vars

\* a pipe at the last fd; one thread reads and writes it, the peer fills
\* and drains it
PipeFd == MAX_MXIO_FD - 1
PipeBundle == <<[type |-> "PIPE", arg |-> PipeFd, stdio |-> FALSE]>>
\* the fds the thread passes: the pipe, and one that is not open
IoFds == {PipeFd, MAX_MXIO_FD}

InitIO == InitEnv({PipeBundle}, MainThread, {NoPwd})

NextIO ==
    \/ Startup
    \/ \E t \in Threads : ReturnToCaller(t)
    \/ \E t \in Threads, op \in IoOps, fd \in IoFds, buf \in {NULL, 1},
          count \in IoCounts : IoBegin(t, op, fd, buf, count)
    \/ \E t \in Threads : IoOp(t)
    \/ \E t \in Threads : IoWait(t)
    \/ \E t \in Threads : IoRelease(t)
    \/ \E t \in Threads, fd \in IoFds, nonblock \in BOOLEAN :
          fcntl_SETFL(t, fd, nonblock)
    \/ \E k \in 1..MaxBytes : PeerWrite(PipeFd, k)
    \/ \E k \in 1..MaxBytes : PeerRead(PipeFd, k)

SpecIO == InitIO /\ [][NextIO]_vars

\* a call that has started takes its next step eventually; the peer and the
\* caller's decision to make a call are not forced
FairIO ==
    \A t \in MainThread :
        WF_vars(IoOp(t)) /\ WF_vars(IoWait(t)) /\ WF_vars(IoRelease(t))

SpecIOFair == SpecIO /\ FairIO

\* startup, then poll and select by one thread; fds 0, 1, 2 are bound and
\* the last fd is not
SelArgs == [n : SelN, rfds : SUBSET SelFds, wfds : SUBSET SelFds,
            efds : SUBSET SelFds]
\* the objects a call may find unable to wait
NoWaits == SUBSET {mxio_fdtab[0]}
\* what wait_end reports, entry by entry, for a call with k entries
ReportsFor(op, k) ==
    [1..k -> IF op = "poll" THEN Reports ELSE Classes]

InitPoll == InitEnv({CwdBundle}, MainThread, {NoPwd})

NextPoll ==
    \/ Startup
    \/ \E t \in Threads : ReturnToCaller(t)
    \/ \E t \in Threads :
          /\ Idle(t)
          /\ \E fds \in PollArrays, nowait \in NoWaits :
                WaitBegin(t, "poll", fds, nowait)
    \/ \E t \in Threads :
          /\ Idle(t)
          /\ \E args \in SelArgs, nowait \in NoWaits :
                WaitBegin(t, "select", args, nowait)
    \/ \E t \in Threads, r \in WaitStatus :
          \E ev \in ReportsFor(call[t].op,
                               IF pc[t] = "wait_many"
                               THEN Len(EntriesOf(call[t].op, call[t].b))
                               ELSE 0) : WaitEnd(t, r, ev)

SpecPoll == InitPoll /\ [][NextPoll]_vars

\* ================================================================ claims
Running == phase = "run"
Bound(fd) == fd \in Fds /\ mxio_fdtab[fd] # NULL
NSlots(o) == Cardinality(SlotsOf(mxio_fdtab, o))

\* C1: after startup and under any interleaving of calls, every object in an
\* occupied slot has refcount >= dupcount >= 1, and its refcount and its
\* dupcount each count every slot that holds it.
C1_RefcountCoversDupcount ==
    Running =>
        \A fd \in Fds :
            Bound(fd) =>
                LET o == mxio_fdtab[fd]
                IN /\ refcount[o] >= dupcount[o]
                   /\ dupcount[o] >= 1
                   /\ refcount[o] >= NSlots(o)
                   /\ dupcount[o] >= NSlots(o)

\* C2: for every object, the number of slots that point at it equals its
\* dupcount (stated for the runs whose stores all stay inside the table).
C2_DupcountCountsSlots ==
    (Running /\ ~oob_write) =>
        \A o \in 1..nobj : NSlots(o) = dupcount[o]

\* C3: an object that was ever installed in the table has its transport
\* close run at most once, and exactly once by the time it is freed.
C3_CloseExactlyOnce ==
    \A o \in 1..nobj :
        installed[o] =>
            /\ closes[o] <= 1
            /\ (frees[o] > 0 => closes[o] = 1)

\* C4: an object is not freed while a thread holds a reference to it that it
\* got from fd_to_io and has not yet released.
C4_HeldObjectStaysAlive ==
    [][\A t \in Threads :
          (pc[t] = "holding" /\ pc'[t] = "holding" /\ frees[io[t]] = 0)
              => frees'[io[t]] = 0]_vars

\* C5: mxio_unbind_from_fd on an occupied slot succeeds exactly when the
\* object's dupcount is 1 and its refcount is 1; otherwise it answers
\* ERR_UNAVAILABLE and leaves the table and the counts as they were.
C5_UnbindOnlySoleOwner ==
    [][\A t \in Threads, fd \in Fds :
          (mxio_unbind_from_fd(t, fd) /\ mxio_fdtab[fd] # NULL) =>
              LET o == mxio_fdtab[fd]
                  sole == dupcount[o] = 1 /\ refcount[o] = 1
              IN /\ sole => /\ ret'[t] = Ret(0, NO_ERROR)
                            /\ mxio_fdtab' = [mxio_fdtab EXCEPT ![fd] = NULL]
                 /\ ~sole => /\ ret'[t] = Ret(0 - 1, ERR_UNAVAILABLE)
                             /\ UNCHANGED <<mxio_fdtab, heap>>]_vars

\* C6: a bind with a negative desired fd puts the object in the lowest free
\* slot of [starting_fd, MAX_MXIO_FD) and returns that slot's index.
FreeFrom(s) == {f \in Fds : f >= s /\ mxio_fdtab[f] = NULL}
Lowest(S) == CHOOSE f \in S : \A g \in S : f <= g

C6_BindPicksLowestFree ==
    [][\A t \in Threads :
          (pc[t] = "dup_bind" /\ pc'[t] # "dup_bind" /\ call[t].b < 0
             /\ FreeFrom(call[t].s) # {}) =>
              LET f == Lowest(FreeFrom(call[t].s))
              IN /\ ret'[t] = Ret(f, NO_ERROR)
                 /\ mxio_fdtab' = [mxio_fdtab EXCEPT ![f] = io[t]]]_vars

\* C7: a successful close(fd) empties slot fd and no other, lowers the
\* object's dupcount by exactly one, and goes on to the transport close only
\* if the dupcount reached 0.
C7_CloseDropsOneSlot ==
    [][\A t \in Threads :
          (pc[t] = "idle" /\ call'[t].op = "close"
             /\ pc'[t] \in {"close_release", "close_transport"}) =>
              LET fd == call'[t].a
                  o == mxio_fdtab[fd]
              IN /\ mxio_fdtab' = [mxio_fdtab EXCEPT ![fd] = NULL]
                 /\ dupcount'[o] = dupcount[o] - 1
                 /\ pc'[t] = "close_transport" => dupcount'[o] = 0]_vars

\* C8: dup2(a, b) with a # b, a bound and b in range returns b, makes slot b
\* hold the object of slot a, leaves slot a alone, and closes the previous
\* occupant of b only if b was the last slot that held it.
C8_Dup2Redirects ==
    [][\A t \in Threads :
          (pc[t] = "dup_bind" /\ pc'[t] # "dup_bind" /\ call[t].op = "dup2"
             /\ call[t].a # call[t].b /\ call[t].b \in Fds) =>
              LET a == call[t].a
                  b == call[t].b
                  old == mxio_fdtab[b]
              IN /\ ret'[t] = Ret(b, NO_ERROR)
                 /\ mxio_fdtab'[b] = mxio_fdtab[a]
                 /\ mxio_fdtab'[a] = mxio_fdtab[a]
                 /\ io_to_close'[t] # NULL =>
                        /\ io_to_close'[t] = old
                        /\ SlotsOf(mxio_fdtab, old) = {b}]_vars

\* C9: dup2(fd, fd) on a bound fd returns fd and changes nothing: the slot,
\* the object's dupcount and refcount stay, and no transport close runs.
C9_Dup2SameFdNoOp ==
    [][\A t \in Threads :
          (pc[t] \in {"dup_bind", "bind_tail"} /\ pc'[t] = "done"
             /\ call[t].op = "dup2" /\ call[t].a = call[t].b) =>
              LET fd == call[t].a
                  o == pre[t].io
              IN /\ ret'[t] = Ret(fd, NO_ERROR)
                 /\ mxio_fdtab' = mxio_fdtab
                 /\ mxio_fdtab'[fd] = o
                 /\ dupcount'[o] = pre[t].dupcount
                 /\ refcount'[o] = pre[t].refcount
                 /\ closes'[o] = pre[t].closes]_vars

\* C10: close(dup(fd)) on a bound fd leaves slot fd on the same object, with
\* the refcount and dupcount it had before, and runs no transport close.
C10_CloseDupRestores ==
    [][\A t \in Threads :
          (pc[t] \in {"close_release", "close_transport"} /\ pc'[t] = "done"
             /\ call[t].op = "close_dup" /\ pre[t].chained) =>
              LET fd == call[t].a
                  o == pre[t].io
              IN /\ mxio_fdtab'[fd] = o
                 /\ dupcount'[o] = pre[t].dupcount
                 /\ refcount'[o] = pre[t].refcount
                 /\ closes'[o] = pre[t].closes]_vars

\* C11: an fd-taking operation (read, write, ..., close, dup, dup2, fcntl,
\* futimens) called with an fd that is out of range or unbound returns -1
\* with EBADF, runs no transport op and changes no slot and no count.
FdTaking(t, fd) ==
    \/ Lookup(t, fd)
    \/ CloseLocked(t, fd)
    \/ DupLookup(t, "dup", fd, 0 - 1, 0)
    \/ \E newfd \in FdArgs : DupLookup(t, "dup2", fd, newfd, 0)
    \/ \E starting_fd \in StartArgs :
           DupLookup(t, "fcntl", fd, 0 - 1, starting_fd)
    \/ futimens(t, fd)

C11_BadFdIsEBADF ==
    [][\A t \in Threads, fd \in OldFds :
          (fd_to_io(fd) = NULL /\ FdTaking(t, fd)) =>
              /\ ret'[t] = Ret(0 - 1, EBADF)
              /\ ~top'
              /\ UNCHANGED <<mxio_fdtab, heap>>]_vars

\* C12: read, write, pread and pwrite on an fd whose NONBLOCK flag is unset
\* never return EAGAIN: when the transport answers ERR_SHOULD_WAIT they go
\* through mxio_wait_fd and retry the transport op; and a read that is
\* blocked on the empty pipe returns the bytes once the writer has put them
\* there (3 bytes for a read of 3 after a write of 3).
C12_BlockingIoWaits ==
    /\ [][\A t \in Threads :
            (pc[t] = "io_op" /\ pc'[t] # "io_op" /\ ~flags[io[t]]) =>
                /\ ret'[t].err # EAGAIN \/ pc'[t] = "io_wait"
                /\ (TransportIo(call[t].op, io[t], call[t].b).status
                        = ERR_SHOULD_WAIT) => pc'[t] = "io_wait"
                /\ pc'[t] = "io_release" => ret'[t].v > 0]_vars
    /\ [][\A t \in Threads :
            pc[t] = "io_wait" => (pc'[t] \in {"io_wait", "io_op"})]_vars
    /\ [][\A t \in Threads :
            (pc[t] = "io_release" /\ pc'[t] = "done" /\ ret'[t].err = EAGAIN)
                => flags[io[t]]]_vars
    /\ \A t \in Threads, c \in IoCounts :
          (pc[t] = "io_wait" /\ call[t].op \in ReadOps /\ call[t].b = c
             /\ avail[io[t]] >= c)
              ~> (pc[t] = "done" /\ ret[t] = Ret(c, NO_ERROR) /\ waited)

\* a read of MaxBytes found the pipe empty, waited, and returned MaxBytes
C12_Witness ==
    \E t \in Threads :
        /\ pc[t] = "done" /\ call[t].op = "read" /\ waited
        /\ ret[t] = Ret(MaxBytes, NO_ERROR)

\* C13: with NONBLOCK set by fcntl(fd, F_SETFL, O_NONBLOCK), a read, write,
\* pread or pwrite whose transport op answers ERR_SHOULD_WAIT returns -1
\* with EAGAIN without going through mxio_wait_fd, and its lookup reference
\* is released.
C13_NonblockReturnsEAGAIN ==
    /\ [][\A t \in Threads :
            (pc[t] = "io_op" /\ pc'[t] # "io_op" /\ flags[io[t]]
               /\ TransportIo(call[t].op, io[t], call[t].b).status
                     = ERR_SHOULD_WAIT) =>
                /\ pc'[t] = "io_release"
                /\ ret'[t] = Ret(0 - 1, EAGAIN)
                /\ ~waited']_vars
    /\ [][\A t \in Threads :
            (pc[t] = "io_release" /\ ret[t].err = EAGAIN /\ pc'[t] = "done") =>
                /\ ret'[t] = Ret(0 - 1, EAGAIN)
                /\ ~waited'
                /\ refcount'[io[t]] = pre[t].refcount]_vars

\* a write on the full pipe has returned EAGAIN after F_SETFL
C13_Witness ==
    \E t \in Threads :
        /\ pc[t] = "done" /\ call[t].op = "write"
        /\ ret[t] = Ret(0 - 1, EAGAIN) /\ ~waited
        /\ flags[mxio_fdtab[PipeFd]]

\* C14: open and openat with both O_CREAT and O_DIRECTORY return -1 with
\* EINVAL and have no side effect: no transport open (which is where the
\* path is resolved), no object, no refcount or dupcount change, no slot
\* change.
C14_CreatDirectoryIsEINVAL ==
    [][\A t \in Threads, op \in {"open", "openat"}, path \in OpenPaths,
          fl \in OpenFlags :
          (fl.creat /\ fl.directory /\ vopenat(t, op, path, fl)) =>
              /\ pc'[t] = "done"
              /\ ret'[t] = Ret(0 - 1, EINVAL)
              /\ ~top'
              /\ UNCHANGED <<mxio_fdtab, heap, nobj, roots, flags,
                             installed>>]_vars

\* open(path, O_CREAT | O_DIRECTORY) with a good path has returned EINVAL
C14_Witness ==
    \E t \in Threads :
        /\ pc[t] = "done" /\ call[t].op = "open"
        /\ call[t].b = FlagWord([creat |-> TRUE, directory |-> TRUE,
                                 nonblock |-> FALSE])
        /\ ret[t] = Ret(0 - 1, EINVAL) /\ ~top

\* C15: when no fd slot is free, an fd-allocating operation (open, openat,
\* dup, fcntl F_DUPFD with a starting fd >= 0, pipe2, mxio_handle_fd) that
\* gets as far as the allocation fails with EMFILE, leaves the table as it was, and has closed
\* and released exactly once every object it created.
TableFull == \A fd \in Fds : mxio_fdtab[fd] # NULL
AllocOps == {"open", "openat", "dup", "fcntl", "handle_fd"}

C15_FullTableIsEMFILE ==
    [][\A t \in Threads :
          /\ (TableFull /\ pc[t] # "bind_tail" /\ pc'[t] = "bind_tail"
                /\ call'[t].op \in AllocOps /\ call'[t].b < 0
                /\ call'[t].s >= 0) =>
                 /\ ret'[t] = Ret(0 - 1, EMFILE)
                 /\ mxio_fdtab' = mxio_fdtab
          /\ (TableFull /\ pc[t] = "bind_tail" /\ pc'[t] = "done"
                /\ call[t].op \in AllocOps /\ call[t].s >= 0
                /\ ret[t].v < 0) =>
                 /\ ret'[t] = Ret(0 - 1, EMFILE)
                 /\ mxio_fdtab' = mxio_fdtab
                 /\ call[t].op \in Creators =>
                        closes'[io[t]] = 1 /\ frees'[io[t]] = 1
          /\ (TableFull /\ pipe2(t, TRUE) /\ nobj' = nobj + 2) =>
                 /\ ret'[t] = Ret(0 - 1, EMFILE)
                 /\ mxio_fdtab' = mxio_fdtab
                 /\ \A o \in (nobj + 1)..(nobj + 2) :
                        closes'[o] = 1 /\ frees'[o] = 1]_vars

\* C19: in every state, the cwd string and the string getcwd hands back have
\* no "//", no "/./" and no trailing "/" unless the string is exactly "/".
HasSub(s, w) ==
    \E i \in 1..(Len(s) - Len(w) + 1) : SubSeq(s, i, i + Len(w) - 1) = w
Canonical(s) ==
    /\ s # <<>>
    /\ ~HasSub(s, <<"/", "/">>)
    /\ ~HasSub(s, <<"/", ".", "/">>)
    /\ (s[Len(s)] = "/" => s = <<"/">>)

C19_CwdCanonical ==
    /\ Canonical(mxio_cwd_path)
    /\ \A t \in Threads :
          (pc[t] = "done" /\ call[t].op = "getcwd" /\ ret[t].v # NULL)
              => Canonical(out)

\* getcwd has returned a cwd of two segments, reached by chdir
C19_Witness ==
    \E t \in Threads :
        /\ pc[t] = "done" /\ call[t].op = "getcwd" /\ calls > 0
        /\ out = <<"/", "a", "/", ".", "a">>

\* C20: update_cwd_path computes the reference normalization: an absolute
\* path restarts at "/", empty and "." segments are skipped, ".." removes
\* the last segment and leaves "/" as "/", any other segment is appended;
\* from cwd "/", "/a/b/../c//d" gives "/a/c/d".  The reference works on the
\* list of segments.
Absolute(s) == s # <<>> /\ s[1] = "/"
Example == <<"/", "a", "/", "b", "/", ".", ".", "/", "c", "/", "/", "d">>

\* the states in which thread t can call chdir
CanChdir(t) == Idle(t) /\ calls < MaxCalls /\ nobj < MaxObj

Returned(t, op) == pc[t] = "done" /\ call[t].op = op
Count(rev) == Cardinality({i \in 1..Len(rev) : rev[i] # {}})

\* C16: when poll succeeds its return value is the number of entries of
\* fds[] whose revents is not 0 on return, the entries marked POLLNVAL
\* included, whatever mix of negative, unbound and bound fds it is given.
C16_PollCountsRevents ==
    \A t \in Threads :
        (Returned(t, "poll") /\ ret[t].err = NO_ERROR)
            => ret[t].v = Count(out)

\* ------------------------------------------------------------------ C17
TimedOut(t, op) == Returned(t, op) /\ call[t].s.r = ERR_TIMED_OUT
Below(set, k) == {fd \in set : fd < k}

\* C17 as stated: when the kernel wait of poll or select ends with
\* ERR_TIMED_OUT the call succeeds with return value 0 and nothing ready:
\* every revents is 0, every requested bit is cleared.
C17_TimeoutReturnsZero ==
    \A t \in Threads :
        /\ TimedOut(t, "poll") =>
              /\ ret[t] = Ret(0, NO_ERROR)
              /\ \A i \in 1..Len(out) : out[i] = {}
        /\ TimedOut(t, "select") =>
              /\ ret[t] = Ret(0, NO_ERROR)
              /\ \A k \in 1..3 : Below(out[k], call[t].b.n) = {}

\* C17: when the kernel wait of poll or select ends with ERR_TIMED_OUT the
\* call succeeds and completes as after NO_ERROR.  poll gives every bound
\* entry the events wait_end reported, masked to events | HUP | ERR, leaves
\* POLLNVAL on an unbound entry and 0 on a negative one, and returns the
\* number of bound entries whose revents is not 0; select keeps a requested
\* bit below n exactly when wait_end reported its class and returns the
\* number of bits kept.  So the result is 0 with nothing ready exactly when
\* wait_end reports no requested event.
C17_TimeoutCompletesAsSuccess ==
    \A t \in Threads :
        /\ TimedOut(t, "poll") =>
              LET fds == call[t].b
                  ev == call[t].s.ev
                  bound == {i \in 1..Len(fds) :
                              fds[i].fd >= 0 /\ mxio_fdtab[fds[i].fd] # NULL}
              IN /\ ret[t].err = NO_ERROR
                 /\ \A i \in 1..Len(fds) :
                       out[i] = IF fds[i].fd < 0 THEN {}
                                ELSE IF i \notin bound THEN POLLNVAL
                                ELSE ev[i] \cap (fds[i].events \cup {"HUP", "ERR"})
                 /\ ret[t].v = Cardinality({i \in bound : out[i] # {}})
                 /\ ret[t].v = 0 <=>
                       \A i \in bound :
                           ev[i] \cap (fds[i].events \cup {"HUP", "ERR"}) = {}
        /\ TimedOut(t, "select") =>
              LET a == call[t].b
                  ev == call[t].s.ev
                  asked == <<a.rfds, a.wfds, a.efds>>
                  class == <<"IN", "OUT", "ERR">>
              IN /\ ret[t].err = NO_ERROR
                 /\ \A k \in 1..3 : \A fd \in 0..(a.n - 1) :
                       fd \in out[k] <=>
                           (fd \in asked[k] /\ class[k] \in ev[fd + 1])
                 /\ ret[t].v = Cardinality(Below(out[1], a.n))
                                 + Cardinality(Below(out[2], a.n))
                                 + Cardinality(Below(out[3], a.n))
                 /\ ret[t].v = 0 <=>
                       \A k \in 1..3 : \A fd \in Below(asked[k], a.n) :
                           class[k] \notin ev[fd + 1]

\* a poll that timed out and returns 1: of its two entries the bound one has
\* a pending requested event and the unbound one keeps POLLNVAL
C17_Witness ==
    \E t \in Threads :
        /\ TimedOut(t, "poll")
        /\ ret[t] = Ret(1, NO_ERROR)
        /\ Len(out) = 2
        /\ out[1] = {"IN"}
        /\ out[2] = POLLNVAL

\* ------------------------------------------------------------------ C18
\* the fds below n set on entry in some set of a select
SetOnEntry(a) == Below(a.rfds \cup a.wfds \cup a.efds, a.n)
Unbound(fd) == fd >= MAX_MXIO_FD \/ mxio_fdtab[fd] = NULL

\* select succeeded: for every fd below n and each set the bit is set iff it
\* was set on entry and wait_end reported the class of the set, and the
\* return value is the number of bits left set
SelectResult(t) ==
    LET a == call[t].b
        ev == call[t].s.ev
        asked == <<a.rfds, a.wfds, a.efds>>
        class == <<"IN", "OUT", "ERR">>
    IN /\ \A k \in 1..3 : \A fd \in 0..(a.n - 1) :
             fd \in out[k] <=> (fd \in asked[k] /\ class[k] \in ev[fd + 1])
       /\ ret[t].v = Cardinality(Below(out[1], a.n))
                       + Cardinality(Below(out[2], a.n))
                       + Cardinality(Below(out[3], a.n))

\* C18 as stated: when select succeeds a bit below n stays set iff it was
\* set on entry and wait_end reported its class, and the return value is
\* the number of bits left set; if any fd set on entry is unbound the whole
\* call fails with EBADF.
C18_SelectUnboundIsEBADF ==
    \A t \in Threads :
        Returned(t, "select") =>
            /\ ret[t].err = NO_ERROR => SelectResult(t)
            /\ (\E fd \in SetOnEntry(call[t].b) : Unbound(fd))
                  => ret[t] = ERRNO(EBADF)

\* C18: the same for a select that succeeds; if n is between 1 and
\* FD_SETSIZE and an fd below n set on entry is unbound the whole call
\* fails: with EINVAL if a lower fd set on entry is bound to an object that
\* cannot be waited on, with EBADF otherwise.
C18_SelectBitsAndCount ==
    \A t \in Threads :
        Returned(t, "select") =>
            LET a == call[t].b
                bad == {fd \in SetOnEntry(a) : Unbound(fd)}
                deaf == {fd \in SetOnEntry(a) :
                           /\ ~Unbound(fd)
                           /\ mxio_fdtab[fd] \in call[t].s.nowait
                           /\ \A b \in bad : fd < b}
            IN /\ ret[t].err = NO_ERROR => SelectResult(t)
               /\ (a.n >= 1 /\ a.n <= FD_SETSIZE /\ bad # {})
                     => ret[t] = ERRNO(IF deaf # {} THEN EINVAL ELSE EBADF)

\* a select that succeeded with one bit kept and one cleared
C18_Witness ==
    \E t \in Threads :
        /\ Returned(t, "select")
        /\ ret[t] = Ret(1, NO_ERROR)
        /\ call[t].b.n = 2
        /\ call[t].b.rfds = {0, 1}
        /\ out[1] = {1}

\* ------------------------------------------------------------------ C21
\* the paths that are one regular segment
OneSegment ==
    {p \in Paths : /\ p # <<>>
                   /\ \A i \in 1..Len(p) : p[i] # "/"
                   /\ p # <<".">>
                   /\ p # <<".", ".">>}
\* cwd with seg appended, and the bytes that takes with its terminator
Appended(cwd, seg) ==
    IF cwd = Root THEN cwd \o seg ELSE cwd \o <<"/">> \o seg
Bytes(s) == Len(s) + 1

\* C21: the cwd string with its terminator never takes more than PATH_MAX
\* bytes; when a segment appended to it would take more, the cwd becomes
\* exactly "(unknown)", and it becomes "(unknown)" in no case where the
\* appended result fits.
C21_UnknownOnlyOnOverflow ==
    /\ Bytes(mxio_cwd_path) <= PATH_MAX
    /\ \A t \in Threads :
          CanChdir(t) =>
              \A seg \in OneSegment :
                  LET new == update_cwd_path(mxio_cwd_path, seg)
                      fits == Bytes(Appended(mxio_cwd_path, seg)) <= PATH_MAX
                  IN /\ ~fits => new = Unknown
                     /\ fits => new # Unknown

\* ------------------------------------------------------------------ C22
\* C22: for every reachable cwd string s, the sentinel "(unknown)"
\* included, a successful chdir(s) leaves the cwd string equal to s.
C22_ChdirOfCwdKeepsCwd ==
    [][\A t \in Threads :
          (chdir(t, mxio_cwd_path) /\ ret'[t].v = 0)
              => mxio_cwd_path' = mxio_cwd_path]_vars

\* ------------------------------------------------------------------ C23
\* C23: getcwd(buf, size) with a buffer succeeds and copies the path for
\* every size >= strlen(cwd) + 1, and fails with ERANGE for every smaller
\* size other than 0.
C23_GetcwdFitsExactly ==
    [][\A t \in Threads : \A size \in GetcwdSizes \ {0} :
          getcwd(t, 1, size) =>
              IF size >= Len(mxio_cwd_path) + 1
              THEN ret'[t].v # NULL /\ out' = mxio_cwd_path
              ELSE ret'[t] = Ret(NULL, ERANGE)]_vars

\* ------------------------------------------------------------------ C24
\* C24: once startup has installed the root from a ROOT handle, nothing
\* that runs later, calls of mxio_install_root included, changes which
\* object is the root; and in every run mxio_install_root changes the root
\* at most once.
C24_RootInstalledOnce ==
    /\ [][(phase = "run" /\ root_given)
             => mxio_root_handle' = mxio_root_handle]_vars
    /\ [][(phase = "run" /\ mxio_root_handle' # mxio_root_handle)
             => mxio_root_init /\ ~mxio_root_init']_vars
    /\ [][(phase = "run" /\ ~mxio_root_init) => ~mxio_root_init']_vars

\* ------------------------------------------------------------------ C25
\* C25: chdir replaces the cwd object and the cwd string together: when no
\* chdir is inside its locked section, after any interleaving of
\* successful chdir calls, the cwd string is the normalized path of the
\* directory the cwd object is open on.
C25_CwdPathNamesCwdObject ==
    (phase \in {"run", "exit"} /\ mxio_cwd_lock = NoThread)
        => mxio_cwd_path = cwd_dir["cwd"]

\* ------------------------------------------------------------------ C26
\* C26: no thread invokes a transport op, close in particular, while it
\* holds mxio_lock; in bind, close, chdir and mxio_exit alike.
C26_NoTransportOpUnderLock ==
    [][\A t \in Threads :
          (pc'[t] # pc[t] /\ (closes' # closes \/ pc[t] = "chdir_open"))
              => mxio_lock # t]_vars

\* ------------------------------------------------------------------ C27
WantsLock(t, m) ==
    \E k \in 1..2 :
        /\ pc[t] = (IF k = 1 THEN "chdir_lock1" ELSE "chdir_lock2")
        /\ ChdirOrder[k] = m

\* C27: a thread that holds both mxio_cwd_lock and mxio_lock took
\* mxio_cwd_lock first, and no thread takes mxio_cwd_lock while it holds
\* mxio_lock; so no two threads ever wait for each other's mutex, and
\* whatever chdir, getcwd, open, dup, close and umask interleave, a mutex
\* that is locked is unlocked again.
C27_CwdLockIsOuter ==
    /\ [][\A t \in Threads :
             (mxio_cwd_lock' = t /\ mxio_cwd_lock # t) => mxio_lock # t]_vars
    /\ [][\A t \in Threads :
             (/\ mxio_lock' = t /\ mxio_cwd_lock' = t
              /\ ~(mxio_lock = t /\ mxio_cwd_lock = t))
                 => (mxio_cwd_lock = t /\ mxio_lock # t)]_vars
    /\ [](\A t, u \in Threads :
             ~(/\ mxio_cwd_lock = t /\ WantsLock(t, "table")
               /\ mxio_lock = u /\ WantsLock(u, "cwd")))
    /\ (mxio_cwd_lock # NoThread) ~> (mxio_cwd_lock = NoThread)
    /\ (mxio_lock # NoThread) ~> (mxio_lock = NoThread)

\* one thread holds both mutexes in chdir while the other waits for the
\* cwd mutex
C27_Witness ==
    \E t, u \in Threads :
        /\ mxio_cwd_lock = t
        /\ mxio_lock = t
        /\ pc[t] = "chdir_swap"
        /\ u # t
        /\ WantsLock(u, "cwd")

\* ------------------------------------------------------------------ C28
\* the operations that take an fd and neither bind nor unbind it
FdOps == {"use", "read", "write", "F_SETFL", "futimens"}

\* C28: when an fd-taking operation that neither binds nor unbinds returns,
\* the refcount of the object it found at its fd is what it was when the
\* operation started.  A call that runs in one step is compared with the
\* state before the step, a call of several steps with what it found on
\* entry.
C28_FdOpKeepsRefcount ==
    [][\A t \in Threads :
          (pc[t] # "done" /\ pc'[t] = "done" /\ call'[t].op \in FdOps /\ ~uaf')
          => IF pc[t] = "idle"
             THEN \A o \in Objs : refcount'[o] = refcount[o]
             ELSE pre[t].io # NULL
                  => refcount'[pre[t].io] = pre[t].refcount]_vars


\* ------------------------------------------------------------------ C29
WaitOps == {"poll", "select"}
\* the references a call holds on o: the entries of its ios[] that are o
HeldOn(ios, o) == Cardinality({i \in 1..Len(ios) : ios[i] = o})

\* C29: poll and select release every object they acquired before they
\* return.  A call that returns without a kernel wait (bad arguments, no
\* entry to wait on, abort at an unbound fd of select, abort at an object
\* that cannot be waited on) leaves every refcount as it found it; a call
\* that waits holds one reference per entry of ios[] while it waits and
\* gives each of them back when it returns, whatever the wait answered.
C29_WaitReleasesAll ==
    [][\A t \in Threads :
          /\ (pc[t] = "idle" /\ pc'[t] = "done" /\ call'[t].op \in WaitOps)
             => refcount' = refcount
          /\ (pc[t] = "idle" /\ pc'[t] = "wait_many")
             => \A o \in Objs :
                   refcount'[o] = refcount[o] + HeldOn(call'[t].s.st.ios, o)
          /\ (pc[t] = "wait_many" /\ pc'[t] = "wait_many")
             => refcount' = refcount
          /\ (pc[t] = "wait_many" /\ pc'[t] = "done")
             => \A o \in Objs :
                   refcount'[o] = refcount[o] - HeldOn(call[t].s.st.ios, o)]_vars

\* poll({1, 0}) has returned an error because the object at fd 0 cannot be
\* waited on, after it took the objects at fd 1 and at fd 0
C29_Witness ==
    \E t \in Threads :
        /\ pc[t] = "done"
        /\ call[t].op = "poll"
        /\ Len(call[t].b) = 2
        /\ call[t].b[1].fd = 1
        /\ call[t].b[2].fd = 0
        /\ call[t].s.nowait = {mxio_fdtab[0]}
        /\ mxio_fdtab[0] # mxio_fdtab[1]
        /\ ret[t].v = 0 - 1


\* ------------------------------------------------------------------ C30
\* the stdio source: the object at the recorded fd, if one was recorded
\* and the bundle bound it
StdioSource ==
    IF stdio_fd >= 0 /\ mxio_fdtab[stdio_fd] # NULL
    THEN mxio_fdtab[stdio_fd] ELSE NULL

\* the stdio loop has run: every one of fds 0, 1, 2 is bound; one the bundle
\* bound keeps its object, one it left unbound holds the stdio source's
\* object, or with no bound source a new object that no other slot holds
StdioBound ==
    (phase = "boot" /\ phase' = "roots") =>
        \A k \in 0..2 :
            /\ mxio_fdtab'[k] # NULL
            /\ mxio_fdtab[k] # NULL => mxio_fdtab'[k] = mxio_fdtab[k]
            /\ (mxio_fdtab[k] = NULL /\ StdioSource # NULL)
               => mxio_fdtab'[k] = StdioSource
            /\ (mxio_fdtab[k] = NULL /\ StdioSource = NULL)
               => /\ mxio_fdtab'[k] > nobj
                  /\ SlotsOf(mxio_fdtab', mxio_fdtab'[k]) = {k}

\* startup is over: fds 0, 1, 2 are still bound, root and cwd are objects
RootsSet ==
    phase' = "run" =>
        /\ \A k \in 0..2 : mxio_fdtab'[k] # NULL
        /\ mxio_root_handle' # NULL
        /\ mxio_cwd_handle' # NULL

C30_InRange ==
    [][~oob_write' => (StdioBound /\ RootsSet)]_vars


\* ------------------------------------------------------------------ C31
\* the walk is at a REMOTE pair whose info word is that of the next pair
AtTwin ==
    /\ phase = "boot"
    /\ n + 1 <= Len(handle_info)
    /\ handle_info[n].type = "REMOTE"
    /\ handle_info[n] = handle_info[n + 1]

\* the step at a twin pair installs one new object at fdtab[arg] with
\* dupcount 1 and zeroes pair n + 1; the step at a zeroed pair makes no
\* object and leaves the table, the roots and the stdio source alone
TwinConsumed ==
    /\ (AtTwin /\ n' = n + 1 /\ handle_info[n].arg \in Fds)
       => /\ nobj' = nobj + 1
          /\ mxio_fdtab' =
                [mxio_fdtab EXCEPT ![handle_info[n].arg] = nobj + 1]
          /\ dupcount'[nobj + 1] = 1
          /\ handle_info'[n + 1] = ZeroInfo
    /\ (phase = "boot" /\ n <= Len(handle_info) /\ n' = n + 1
          /\ handle_info[n] = ZeroInfo)
       => /\ nobj' = nobj
          /\ mxio_fdtab' = mxio_fdtab
          /\ stdio_fd' = stdio_fd
          /\ mxio_root_handle' = mxio_root_handle
          /\ mxio_cwd_handle' = mxio_cwd_handle

\* C31: in the startup walk a REMOTE pair followed by a pair with the same
\* info word takes that pair as its signaling handle: one object is
\* installed at fdtab[arg] with dupcount 1 and the second pair is not
\* processed as an entry; and no installation stores outside the table.
C31_TwinConsumedInRange ==
    [][TwinConsumed /\ ~oob_write']_vars

\* the first half of C31 alone
C31_TwinOnly == [][TwinConsumed]_vars


\* ------------------------------------------------------------------ C32
\* the object the claim routes (dirfd, path) to
RouteBase(dirfd, path) ==
    IF path # <<>> /\ path[1] = "/" THEN mxio_root_handle
    ELSE IF dirfd = AT_FDCWD THEN mxio_cwd_handle
    ELSE IF dirfd \in Fds /\ mxio_fdtab[dirfd] # NULL THEN mxio_fdtab[dirfd]
    ELSE NULL

\* the path the claim hands to the transport
RouteRest(path) ==
    IF path = <<>> \/ path[1] # "/" THEN path
    ELSE IF Len(path) = 1 THEN <<".">>
    ELSE [i \in 1..(Len(path) - 1) |-> path[i + 1]]

\* C32: an open of (dirfd, path) with a path that is neither null nor empty
\* goes to the root for a path that begins with '/', whatever dirfd is,
\* with the slash stripped and "." for an empty rest; else to the cwd
\* object for AT_FDCWD; else to fdtab[dirfd] for a bound dirfd in range;
\* else it fails with ERR_BAD_HANDLE.  While the open runs the base has one
\* reference more than on entry, and when the call returns it has the
\* count of entry again.  mxio_iodir routes every string so, the empty one
\* included, which __mxio_open_at turns away before it.
C32_PathRouting ==
    [][\A t \in Threads :
          /\ Running
             => \A dirfd \in DirFds, path \in RoutePaths \ {NullPath} :
                   /\ mxio_iodir(path, dirfd).iodir = RouteBase(dirfd, path)
                   /\ mxio_iodir(path, dirfd).path = RouteRest(path)
          /\ (pc[t] = "idle" /\ pc'[t] # "idle" /\ call'[t].op = "fstatat"
                /\ call'[t].s.path \notin {NullPath, <<>>})
             => LET c == call'[t]
                    base == RouteBase(c.b, c.s.path)
                IN IF base = NULL
                   THEN /\ pc'[t] = "done"
                        /\ ret'[t] = ERROR(ERR_BAD_HANDLE)
                        /\ refcount' = refcount
                   ELSE /\ pc'[t] = "fstatat_open"
                        /\ c.s.iodir = base
                        /\ c.s.rest = RouteRest(c.s.path)
                        /\ refcount'[base] = refcount[base] + 1
          /\ (pc[t] = "fstatat_open" /\ pc'[t] = "done")
             => /\ refcount'[pre[t].io] = pre[t].refcount
                /\ refcount'[pre[t].io] = refcount[pre[t].io] - 1]_vars

\* fstatat(3, "/") has returned: the open went to the root with ".",
\* although fd 3 is bound to another object
C32_Witness ==
    \E t \in Threads :
        /\ pc[t] = "done"
        /\ call[t].op = "fstatat"
        /\ call[t].b = MAX_MXIO_FD - 1
        /\ call[t].s.path = <<"/">>
        /\ call[t].s.rest = <<".">>
        /\ call[t].s.iodir = mxio_root_handle
        /\ mxio_fdtab[MAX_MXIO_FD - 1] # NULL
        /\ mxio_fdtab[MAX_MXIO_FD - 1] # mxio_root_handle
        /\ top


\* ------------------------------------------------------------------ C33
NoPath == {NullPath, <<>>}

\* C33: a path-taking operation that was given a null or an empty path has
\* failed with EINVAL, has run no transport op and has not read outside
\* the string.  fstatat stands for the callers of __mxio_open_at (open,
\* openat, mkdirat, fstatat, faccessat, utimensat, truncate, chdir).
C33_NoPathIsEINVAL ==
    \A t \in Threads :
        pc[t] = "done" =>
            /\ (call[t].op = "fstatat" /\ call[t].s.path \in NoPath)
               => ret[t] = ERRNO(EINVAL) /\ ~top
            /\ (call[t].op \in {"unlinkat", "rename", "link"}
                  /\ \E i \in DOMAIN call[t].s.paths :
                        call[t].s.paths[i] \in NoPath)
               => /\ ret[t] = ERRNO(EINVAL)
                  /\ ~top
                  /\ ~call[t].s.outside

\* C33 for the callers of __mxio_open_at alone
C33_OpenAtOnly ==
    \A t \in Threads :
        (pc[t] = "done" /\ call[t].op = "fstatat"
            /\ call[t].s.path \in NoPath)
        => ret[t] = ERRNO(EINVAL) /\ ~top


\* ------------------------------------------------------------------ C34
\* C34: whatever the interleaving of dup, dup2, fcntl(F_DUPFD), open and
\* close on several threads, no occupied slot of the table holds an object
\* whose transport close has been run.
C34_NoClosedObjectBound ==
    Running => \A fd \in Fds : Bound(fd) => closes[mxio_fdtab[fd]] = 0


\* ------------------------------------------------------------------ C35
\* C35: dup2(oldfd, newfd) and dup3(oldfd, newfd, flags) bind no slot but
\* newfd and return newfd or -1; with newfd outside the table, negative
\* values included, they fail and leave the table as it was.  Stated of the
\* step in which mxio_bind_to_fd runs under the lock, whose result the
\* call returns; a call that fails before it does not touch the table.
C35_Dup2BindsOnlyNewfd ==
    [][\A t \in Threads :
          /\ (pc[t] = "dup_bind" /\ pc'[t] # "dup_bind"
                /\ call[t].op \in {"dup2", "dup3"})
             => LET newfd == call[t].b
                IN /\ \A fd \in Fds \ {newfd} :
                         mxio_fdtab'[fd] = mxio_fdtab[fd]
                   /\ ret'[t].v \in {newfd, 0 - 1}
                   /\ newfd \notin Fds
                      => ret'[t].v = 0 - 1 /\ mxio_fdtab' = mxio_fdtab
          /\ (pc[t] = "idle" /\ pc'[t] = "done"
                /\ call'[t].op \in {"dup2", "dup3"})
             => ret'[t].v = 0 - 1 /\ mxio_fdtab' = mxio_fdtab]_vars

\* C35 for the calls whose newfd is not negative
C35_NewfdNotNegative ==
    [][\A t \in Threads :
          (pc[t] = "dup_bind" /\ pc'[t] # "dup_bind"
              /\ call[t].op \in {"dup2", "dup3"} /\ call[t].b >= 0)
          => LET newfd == call[t].b
             IN /\ \A fd \in Fds \ {newfd} :
                      mxio_fdtab'[fd] = mxio_fdtab[fd]
                /\ ret'[t].v \in {newfd, 0 - 1}
                /\ newfd \notin Fds
                   => ret'[t].v = 0 - 1 /\ mxio_fdtab' = mxio_fdtab]_vars

\* ------------------------------------------------------------------ C36
\* this step sends a READDIR request
Fetching == fetched'.since > 0 /\ fetched' # fetched

\* this step is readdir handing an entry to its caller
Returning ==
    \E t \in Threads : pc[t] = "readdir" /\ pc'[t] = "done" /\ ret'[t].v = 1

\* C36: the READDIR request of readdir carries RESET exactly when it is the
\* first request since opendir, fdopendir or rewinddir, and NONE on every
\* later one; and an entry that readdir returns was not fetched before the
\* last rewinddir.
C36_ResetOnFirstFetch ==
    [][/\ Fetching
          => (fetched'.cmd = READDIR_CMD_RESET <=> fetched.since = 0)
       /\ Returning => dirent'.gen = rewinds]_vars

\* C36, amended: the request carries RESET exactly while the cursor is
\* null, which is as long as no request since opendir, fdopendir or
\* rewinddir has brought any record, and NONE from then on; and an entry
\* that readdir returns was not fetched before the last rewinddir.
C36_ResetWhileCursorNull ==
    [][/\ Fetching
          => /\ fetched'.cmd = READDIR_CMD_RESET <=> dir.ptr = NULL
             /\ fetched'.cmd = READDIR_CMD_NONE <=> dir.ptr # NULL
       /\ dir'.open => (dir'.ptr = NULL <=> ~fetched'.got)
       /\ Returning => dirent'.gen = rewinds]_vars

\* after rewinddir a first request failed and a second, with RESET again,
\* brought a batch shorter than the one cached before; readdir has
\* returned its first entry
C36_Witness ==
    /\ rewinds = 1
    /\ fetched.since = 2
    /\ fetched.cmd = READDIR_CMD_RESET
    /\ fetched.got
    /\ dirent.gen = rewinds
    /\ \E i \in DOMAIN dir.data : dir.data[i].gen < rewinds
    /\ \E t \in Threads : pc[t] = "done" /\ call[t].op = "readdir"

====
